---- MODULE Spec2Model ----
(***************************************************************************)
(* Logo-discovery engine of the opportunity scrapers                       *)
(* (AfricanOpportunitiesScraper / DisruptAfricaScraper / LogoExtractor).   *)
(*                                                                         *)
(* Strings are sequences of tokens.  A token is a chunk of characters that *)
(* the code never looks inside of except through substring, prefix and     *)
(* length tests; TokInfo tabulates the outcome of those tests per token.   *)
(* Scores are kept in hundredths (0.1 is 10, 0.05 is 5).                   *)
(* The empty sequence stands for Python's None and for the empty string:   *)
(* the code only ever tests them for truthiness.                           *)
(***************************************************************************)
EXTENDS Integers, Sequences, FiniteSets, TLC

VARIABLES
    normSrc,    \* _normalize_logo_url: argument logo_src
    normBase,   \* _normalize_logo_url: argument base_url
    normOut,    \* _normalize_logo_url: returned value
    normPc,     \* "call" before the call, "done" after it
    \* the scraper object and one call of extract_logo_from_website
    scraper,            \* the class of the object
    pc,                 \* where the call stands
    stage,              \* index into static_strategies while in the loop
    website_url,        \* the local website_url
    doc,                \* the parsed response (soup, header_elements)
    rendered,           \* the page in the browser
    logo_candidates,    \* self.logo_candidates
    result,             \* the value returned by the last call
    \* bookkeeping of the model
    stagesRun,          \* the strategies invoked by this call, in order
    stageOut,           \* what each of them returned
    confirmed,          \* URLs a validation request of this call confirmed
    scored,             \* whether the gate scored the result, and the score
    browserStarts,      \* browser launches of this call
    browser,            \* the browser session of this call: none, open or closed
    fetchFailed,        \* the page fetch of this call raised
    escaped,            \* an exception left extract_logo_from_website
    earlier,            \* an earlier call on this object: its inputs and result
    peer,               \* a second call running on this object at the same time
    gateCall            \* one call of the gate and of the two validations

normVars == <<normSrc, normBase, normOut, normPc>>

pipeVars ==
    <<scraper, pc, stage, website_url, doc, rendered, logo_candidates, result,
      stagesRun, stageOut, confirmed, scored, browserStarts, browser, fetchFailed, escaped,
      earlier, peer, gateCall>>

vars == <<normVars, pipeVars>>

Nothing == <<>>

B64Alphabet == <<"A", "B", "C", "D", "E", "F", "G", "H", "I", "J", "K", "L", "M", "N", "O", "P", "Q", "R", "S", "T", "U", "V", "W", "X", "Y", "Z", "a", "b", "c", "d", "e", "f", "g", "h", "i", "j", "k", "l", "m", "n", "o", "p", "q", "r", "s", "t", "u", "v", "w", "x", "y", "z", "0", "1", "2", "3", "4", "5", "6", "7", "8", "9", "+", "/">>

B64Chars == {B64Alphabet[i] : i \in 1..64}

(***************************************************************************)
(* Token tables: length, lower-cased substrings and prefixes of each token *)
(***************************************************************************)
TokInfo(t) ==
  CASE t = "https://" -> [len |-> 8, has |-> {}, pre |-> {"https://", "http"}, suf |-> {}]
    [] t = "http://" -> [len |-> 7, has |-> {}, pre |-> {"http://", "http"}, suf |-> {}]
    [] t = "/" -> [len |-> 1, has |-> {}, pre |-> {"/"}, suf |-> {}]
    [] t = "example.org" -> [len |-> 11, has |-> {"org", "x"}, pre |-> {}, suf |-> {}]
    [] t = "cdn.net" -> [len |-> 7, has |-> {}, pre |-> {}, suf |-> {}]
    [] t = "about" -> [len |-> 5, has |-> {}, pre |-> {}, suf |-> {}]
    [] t = "img" -> [len |-> 3, has |-> {}, pre |-> {}, suf |-> {}]
    [] t = "images" -> [len |-> 6, has |-> {"image"}, pre |-> {}, suf |-> {}]
    [] t = "assets" -> [len |-> 6, has |-> {}, pre |-> {}, suf |-> {}]
    [] t = "logo.png" -> [len |-> 8, has |-> {".png", "logo"}, pre |-> {}, suf |-> {}]
    [] t = "LOGO.PNG" -> [len |-> 8, has |-> {".png", "logo"}, pre |-> {}, suf |-> {}]
    [] t = "brand.svg" -> [len |-> 9, has |-> {".svg", "brand"}, pre |-> {}, suf |-> {}]
    [] t = "brand.png" -> [len |-> 9, has |-> {".png", "brand"}, pre |-> {}, suf |-> {}]
    [] t = "brand" -> [len |-> 5, has |-> {"brand"}, pre |-> {}, suf |-> {}]
    [] t = "pic.jpg" -> [len |-> 7, has |-> {".jpg", "pic"}, pre |-> {}, suf |-> {}]
    [] t = "hero.gif" -> [len |-> 8, has |-> {".gif"}, pre |-> {}, suf |-> {}]
    [] t = "menu-burger-icon.png" -> [len |-> 20, has |-> {".png", "icon", "menu", "burger"}, pre |-> {}, suf |-> {}]
    [] t = "facebook-share.png" -> [len |-> 18, has |-> {".png", "facebook"}, pre |-> {}, suf |-> {}]
    [] t = "favicon.ico" -> [len |-> 11, has |-> {".ico", "icon"}, pre |-> {}, suf |-> {".ico"}]
    [] t = "touch.png" -> [len |-> 9, has |-> {".png"}, pre |-> {}, suf |-> {}]
    [] t = "sprite" -> [len |-> 6, has |-> {}, pre |-> {}, suf |-> {}]
    [] t = "sprite.svg" -> [len |-> 10, has |-> {".svg"}, pre |-> {}, suf |-> {}]
    [] t = ".." -> [len |-> 2, has |-> {}, pre |-> {}, suf |-> {}]
    [] t = "." -> [len |-> 1, has |-> {}, pre |-> {}, suf |-> {}]
    [] t = "data:image/png;base64," -> [len |-> 22, has |-> {"image"}, pre |-> {"data:image/", "data:"}, suf |-> {}]
    [] t = "iVBORw0KGgo=" -> [len |-> 12, has |-> {}, pre |-> {}, suf |-> {}]
    [] t = "" -> [len |-> 0, has |-> {}, pre |-> {}, suf |-> {}]
    [] t = "Company Logo" -> [len |-> 12, has |-> {"logo", "company"}, pre |-> {}, suf |-> {}]
    [] t = "team" -> [len |-> 4, has |-> {}, pre |-> {}, suf |-> {}]
    [] t = "logo" -> [len |-> 4, has |-> {"logo"}, pre |-> {}, suf |-> {}]
    [] t = "nav-img" -> [len |-> 7, has |-> {}, pre |-> {}, suf |-> {}]
    [] t = "Home" -> [len |-> 4, has |-> {"home"}, pre |-> {}, suf |-> {}]
    [] t = "Donate" -> [len |-> 6, has |-> {}, pre |-> {}, suf |-> {}]
    [] t = "64x64" -> [len |-> 5, has |-> {"x"}, pre |-> {}, suf |-> {}]
    [] t = "32x32" -> [len |-> 5, has |-> {"x"}, pre |-> {}, suf |-> {}]
    [] t = "16x16" -> [len |-> 5, has |-> {"x"}, pre |-> {}, suf |-> {}]
    [] t = "any" -> [len |-> 3, has |-> {}, pre |-> {}, suf |-> {}]
    [] t = "image/png" -> [len |-> 9, has |-> {"image"}, pre |-> {}, suf |-> {}]
    [] t = "text/html" -> [len |-> 9, has |-> {"x"}, pre |-> {}, suf |-> {}]
    [] t = "data:image/svg+xml;base64," -> [len |-> 26, has |-> {"image", "x"}, pre |-> {"data:image/", "data:"}, suf |-> {}]
    [] t = "#mark" -> [len |-> 5, has |-> {}, pre |-> {}, suf |-> {}]
    [] t = "=" -> [len |-> 1, has |-> {}, pre |-> {}, suf |-> {}]
    [] t = "#" -> [len |-> 1, has |-> {}, pre |-> {}, suf |-> {}]
    [] t = "application/octet-stream" -> [len |-> 24, has |-> {}, pre |-> {}, suf |-> {}]
    [] t = "other.org" -> [len |-> 9, has |-> {"org"}, pre |-> {}, suf |-> {}]
    [] t = "data:text/html;name=logo.png," -> [len |-> 29, has |-> {".png", "logo", "x"}, pre |-> {"data:"}, suf |-> {}]
    [] t \in B64Chars \ {"/"} -> [len |-> 1, has |-> IF t = "x" THEN {"x"} ELSE {}, pre |-> {}, suf |-> {}]

\* The four asset folders of _analyze_logo_url_features are the only words
\* of the code that span a slash.
FolderWord(w) ==
  CASE w = "/assets/" -> "assets"
    [] w = "/images/" -> "images"
    [] w = "/img/" -> "img"
    [] w = "/static/" -> "static"
    [] OTHER -> ""

\* Python: w in s.lower()
Contains(s, w) ==
    IF FolderWord(w) /= ""
    THEN \E i \in 1..(Len(s) - 2) :
            s[i] = "/" /\ s[i + 1] = FolderWord(w) /\ s[i + 2] = "/"
    ELSE \E i \in 1..Len(s) : w \in TokInfo(s[i]).has

ContainsAny(s, ws) == \E w \in ws : Contains(s, w)

\* Python: s.startswith(p)
StartsWith(s, p) == s /= <<>> /\ p \in TokInfo(s[1]).pre

\* Python: s.lower().endswith(p)
EndsWith(s, p) == s /= <<>> /\ p \in TokInfo(s[Len(s)]).suf

RECURSIVE StrLen(_)
\* Python: len(s)
StrLen(s) == IF s = <<>> THEN 0 ELSE TokInfo(s[1]).len + StrLen(Tail(s))

(***************************************************************************)
(* urllib.parse as the code uses it                                        *)
(***************************************************************************)
SchemeOf(t) ==
  CASE t = "https://" -> "https"
    [] t = "http://" -> "http"
    [] t = "data:image/png;base64," -> "data"
    [] OTHER -> ""

SchemeTok(s) == IF s = "https" THEN <<"https://">> ELSE IF s = "http" THEN <<"http://">> ELSE <<>>

RECURSIVE LeadLen(_)
\* number of leading tokens before the first slash
LeadLen(s) == IF s = <<>> \/ s[1] = "/" THEN 0 ELSE 1 + LeadLen(Tail(s))

Drop(s, n) == SubSeq(s, n + 1, Len(s))

\* urlparse(url): scheme, netloc and path of a URL
UrlParse(u) ==
    LET Parts(sch, rest, auth) ==
            LET Cut(n) == [scheme |-> sch, netloc |-> SubSeq(rest, 1, n),
                           path |-> Drop(rest, n)]
            IN  Cut(IF auth THEN LeadLen(rest) ELSE 0)
        Authority(sch, rest) ==
            IF sch = "" /\ Len(rest) >= 2 /\ rest[1] = "/" /\ rest[2] = "/"
            THEN Parts(sch, Drop(rest, 2), TRUE)
            ELSE Parts(sch, rest, sch \in {"http", "https"})
        WithScheme(sch) == Authority(sch, IF sch = "" THEN u ELSE Tail(u))
    IN  WithScheme(IF u = <<>> THEN "" ELSE SchemeOf(u[1]))

\* urlunparse: a path under a netloc starts with a slash
UrlUnparse(scheme, netloc, path) ==
    SchemeTok(scheme) \o netloc
        \o (IF netloc /= <<>> /\ path /= <<>> /\ path[1] /= "/" THEN <<"/">> ELSE <<>>)
        \o path

RECURSIVE Split(_)
\* path.split('/'): the segments of a path, "" for an empty one
Split(p) ==
    IF p = <<>> THEN <<"">>
    ELSE IF p[1] = "/" THEN <<"">> \o Split(Tail(p))
    ELSE IF Len(p) = 1 THEN <<p[1]>>
    ELSE <<p[1]>> \o Split(Drop(p, 2))

SegTok(x) == IF x = "" THEN <<>> ELSE <<x>>

RECURSIVE JoinSegs(_)
\* '/'.join(segments)
JoinSegs(segs) ==
    IF segs = <<>> THEN <<>>
    ELSE IF Len(segs) = 1 THEN SegTok(segs[1])
    ELSE SegTok(segs[1]) \o <<"/">> \o JoinSegs(Tail(segs))

RECURSIVE DropEmpty(_)
\* filter(None, segments)
DropEmpty(segs) ==
    IF segs = <<>> THEN <<>>
    ELSE IF segs[1] = "" THEN DropEmpty(Tail(segs))
    ELSE <<segs[1]>> \o DropEmpty(Tail(segs))

RECURSIVE ResolveDots(_, _)
\* the loop of urljoin over the segments: '..' pops, '.' is skipped
ResolveDots(segs, acc) ==
    IF segs = <<>> THEN acc
    ELSE IF segs[1] = ".." THEN
        ResolveDots(Tail(segs), IF acc = <<>> THEN acc ELSE SubSeq(acc, 1, Len(acc) - 1))
    ELSE IF segs[1] = "." THEN ResolveDots(Tail(segs), acc)
    ELSE ResolveDots(Tail(segs), Append(acc, segs[1]))

\* urljoin(base, url)
UrlJoin(base, url) ==
    LET Resolved(scheme, b, segs) ==
            LET Emit(res0) ==
                    LET Out(joined) ==
                            UrlUnparse(scheme, b.netloc,
                                       IF joined = <<>> THEN <<"/">> ELSE joined)
                    IN  Out(JoinSegs(IF segs[Len(segs)] \in {".", ".."}
                                     THEN Append(res0, "") ELSE res0))
            IN  Emit(ResolveDots(segs, <<>>))
        Merged(scheme, b, u, bp0, us) ==
            LET Segs(segs0) ==
                    IF u.path[1] = "/" THEN us
                    ELSE IF Len(segs0) <= 2 THEN segs0
                    ELSE <<segs0[1]>> \o DropEmpty(SubSeq(segs0, 2, Len(segs0) - 1))
                                      \o <<segs0[Len(segs0)]>>
            IN  Resolved(scheme, b,
                         Segs((IF bp0[Len(bp0)] /= "" THEN SubSeq(bp0, 1, Len(bp0) - 1)
                               ELSE bp0) \o us))
        Joined(scheme, b, u) ==
            IF scheme /= b.scheme \/ scheme \notin {"http", "https", ""} THEN url
            ELSE IF u.netloc /= <<>> THEN UrlUnparse(scheme, u.netloc, u.path)
            ELSE IF u.path = <<>> THEN UrlUnparse(scheme, b.netloc, b.path)
            ELSE Merged(scheme, b, u, Split(b.path), Split(u.path))
        Parsed(b, u) == Joined(IF u.scheme = "" THEN b.scheme ELSE u.scheme, b, u)
    IN  IF base = <<>> THEN url
        ELSE IF url = <<>> THEN base
        ELSE Parsed(UrlParse(base), UrlParse(url))

(***************************************************************************)
(* URL normalisation                                                       *)
(***************************************************************************)
\* a plausible slip: the root-relative branch keeps the path of base_url
NormalizeLogoUrlKeepsPath(logo_src, base_url) ==
    IF logo_src = <<>> THEN Nothing
    ELSE IF StartsWith(logo_src, "http://") \/ StartsWith(logo_src, "https://") THEN logo_src
    ELSE IF StartsWith(logo_src, "/") THEN base_url \o logo_src
    ELSE UrlJoin(base_url, logo_src)

NormalizeLogoUrl(logo_src, base_url) ==
    IF logo_src = <<>> THEN Nothing
    ELSE IF StartsWith(logo_src, "http://") \/ StartsWith(logo_src, "https://") THEN logo_src
    ELSE IF StartsWith(logo_src, "/") THEN
        LET parsed_url == UrlParse(base_url)
        IN  SchemeTok(parsed_url.scheme) \o parsed_url.netloc \o logo_src
    ELSE UrlJoin(base_url, logo_src)

(***************************************************************************)
(* Image validation over the network                                       *)
(*                                                                         *)
(* A response is [status, ctype, sig]: status 0 stands for a request that  *)
(* raised (timeout, connection or TLS error); sig tells whether the first  *)
(* four bytes of the body are an ICO signature.  The answers of one URL    *)
(* are [head, get, pix]; pix describes the decoded picture.                *)
(***************************************************************************)
ValidExtensions == {".png", ".jpg", ".jpeg", ".gif", ".svg", ".webp", ".ico"}

LogoKeywords == {"logo", "brand", "company", "organization", "site"}

IsImageType(ctype) == ContainsAny(<<ctype>>, {"image", "icon"})

\* validate_logo_image_fast
ValidateLogoImageFast(logo_url, net) ==
    IF logo_url = <<>> \/ StrLen(logo_url) < 10 THEN FALSE
    ELSE IF StartsWith(logo_url, "data:image/") THEN TRUE
    ELSE IF ~ContainsAny(logo_url, ValidExtensions) THEN FALSE
    ELSE IF net.head.status = 0 THEN
        \* HEAD raised: fallback GET
        net.get.status = 200 /\ IsImageType(net.get.ctype)
    ELSE IF net.head.status = 200 THEN IsImageType(net.head.ctype)
    ELSE FALSE

\* validate_logo_image
ValidateLogoImage(logo_url, net) ==
    IF logo_url = <<>> \/ StrLen(logo_url) < 10 THEN FALSE
    ELSE IF StartsWith(logo_url, "data:image/") THEN TRUE
    ELSE IF ~ContainsAny(logo_url, ValidExtensions) THEN FALSE
    ELSE IF net.head.status = 0 THEN
        /\ net.get.status = 200
        /\ \/ IsImageType(net.get.ctype)
           \/ EndsWith(logo_url, ".ico") /\ net.get.sig
    ELSE net.head.status = 200 /\ IsImageType(net.head.ctype)

(***************************************************************************)
(* The validity gate                                                       *)
(*                                                                         *)
(* An attribute holding a number is [kind |-> "int", val |-> n]; one that  *)
(* int() rejects is [kind |-> "text"]; a missing one is [kind |-> "none"]. *)
(***************************************************************************)
AttrGiven(a) == a.kind /= "none"

\* the score the gate accumulates, in hundredths
GateScore(logo_url, img_element, confidence_boost) ==
    confidence_boost
    + (IF StartsWith(logo_url, "data:image/") THEN 20
       ELSE IF Contains(logo_url, ".svg") THEN 10 ELSE 0)
    + (IF img_element.tag = "none" THEN 0
       ELSE (IF ContainsAny(img_element.alt, LogoKeywords)
                \/ ContainsAny(img_element.class, LogoKeywords) THEN 30 ELSE 0)
          + (IF /\ AttrGiven(img_element.width) /\ AttrGiven(img_element.height)
                /\ img_element.width.kind = "int" /\ img_element.height.kind = "int"
                /\ 50 <= img_element.width.val /\ img_element.width.val <= 500
                /\ 20 <= img_element.height.val /\ img_element.height.val <= 200
             THEN 10 ELSE 0))

\* a plausible slip: the final comparison with 0.1 is left out
IsValidLogoCandidateNoThreshold(logo_url, img_element, confidence_boost, net) ==
    /\ logo_url /= <<>>
    /\ \/ StartsWith(logo_url, "data:image/")
       \/ ContainsAny(logo_url, ValidExtensions)
    /\ StartsWith(logo_url, "data:") \/ ValidateLogoImageFast(logo_url, net)

\* _is_valid_logo_candidate
IsValidLogoCandidate(logo_url, img_element, confidence_boost, net) ==
    /\ logo_url /= <<>>
    /\ \/ StartsWith(logo_url, "data:image/")
       \/ ContainsAny(logo_url, ValidExtensions)
    /\ StartsWith(logo_url, "data:") \/ ValidateLogoImageFast(logo_url, net)
    /\ GateScore(logo_url, img_element, confidence_boost) >= 10

MaxCandidates == 20

\* a plausible slip: the length of the list is not looked at
AddLogoCandidateUnbounded(cands, logo_url, img_element, confidence, strategy, gate) ==
    IF logo_url /= <<>>
    THEN Append(cands, [url |-> logo_url, confidence |-> confidence,
                        strategy |-> strategy,
                        alt |-> img_element.alt, class |-> img_element.class,
                        src |-> img_element.src,
                        net |-> img_element.net, gate |-> gate])
    ELSE cands

\* _add_logo_candidate; net and gate are bookkeeping of the model: the
\* answers of the candidate's URL and the score the gate computed for it
AddLogoCandidate(cands, logo_url, img_element, confidence, strategy, gate) ==
    IF logo_url /= <<>> /\ Len(cands) < MaxCandidates
    THEN Append(cands, [url |-> logo_url, confidence |-> confidence,
                        strategy |-> strategy,
                        alt |-> img_element.alt, class |-> img_element.class,
                        src |-> img_element.src,
                        net |-> img_element.net, gate |-> gate])
    ELSE cands

(***************************************************************************)
(* Inline SVG extraction; markup is a sequence of bytes                    *)
(***************************************************************************)
SvgOpenBytes == <<60, 115, 118, 103, 32, 99, 108, 97, 115, 115, 61, 34, 108, 111, 103, 111, 34, 32, 118, 105, 101, 119, 98, 111, 120, 61, 34, 48, 32, 48, 32, 54, 52, 32, 54, 52, 34, 62, 60, 116, 105, 116, 108, 101, 62>>
SvgTitleEndBytes == <<60, 47, 116, 105, 116, 108, 101, 62>>
PathElementBytes == <<60, 112, 97, 116, 104, 32, 100, 61, 34, 77, 52, 32, 52, 76, 54, 48, 32, 54, 48, 34, 62, 60, 47, 112, 97, 116, 104, 62>>
GroupElementBytes == <<60, 103, 32, 105, 100, 61, 34, 109, 97, 114, 107, 34, 62, 60, 47, 103, 62>>
SvgCloseBytes == <<60, 47, 115, 118, 103, 62>>
PathWordBytes == <<112, 97, 116, 104>>
CircleWordBytes == <<99, 105, 114, 99, 108, 101>>
RectWordBytes == <<114, 101, 99, 116>>
PathDataBytes == <<77, 52, 32, 52, 76, 54, 48, 32, 54, 48>>

\* Python: w in s, on bytes
HasBytes(s, w) ==
    \E i \in 1..(Len(s) - Len(w) + 1) : SubSeq(s, i, i + Len(w) - 1) = w

RECURSIVE Base64Encode(_)
\* base64.b64encode(...).decode('utf-8'): three bytes make four characters
Base64Encode(b) ==
    IF b = <<>> THEN <<>>
    ELSE IF Len(b) = 1 THEN
        << B64Alphabet[(b[1] \div 4) + 1], B64Alphabet[((b[1] % 4) * 16) + 1], "=", "=" >>
    ELSE IF Len(b) = 2 THEN
        << B64Alphabet[(b[1] \div 4) + 1],
           B64Alphabet[((b[1] % 4) * 16 + (b[2] \div 16)) + 1],
           B64Alphabet[((b[2] % 16) * 4) + 1], "=" >>
    ELSE
        << B64Alphabet[(b[1] \div 4) + 1],
           B64Alphabet[((b[1] % 4) * 16 + (b[2] \div 16)) + 1],
           B64Alphabet[((b[2] % 16) * 4 + (b[3] \div 64)) + 1],
           B64Alphabet[(b[3] % 64) + 1] >> \o Base64Encode(Drop(b, 3))

DataSvgPrefix == <<"data:image/svg+xml;base64,">>

RECURSIVE Base64Decode(_)
\* base64.b64decode of a sequence of characters
Base64Decode(c) ==
    IF Len(c) < 4 THEN <<>>
    ELSE
    LET Val(x) == IF x = "=" THEN 0 ELSE (CHOOSE i \in 1..64 : B64Alphabet[i] = x) - 1
        b1 == Val(c[1]) * 4 + (Val(c[2]) \div 16)
        b2 == (Val(c[2]) % 16) * 16 + (Val(c[3]) \div 4)
        b3 == (Val(c[3]) % 4) * 64 + Val(c[4])
    IN  IF c[3] = "=" THEN <<b1>>
        ELSE IF c[4] = "=" THEN <<b1, b2>>
        ELSE <<b1, b2, b3>> \o Base64Decode(Drop(c, 4))

\* a plausible slip: the drawing primitives are joined by and
ExtractSvgAsLogoAllPrimitives(svg_element, base_url) ==
    IF svg_element.use /= <<>> /\ StartsWith(svg_element.use, "http") THEN svg_element.use
    ELSE IF svg_element.use /= <<>> /\ StartsWith(svg_element.use, "/") THEN
        NormalizeLogoUrl(svg_element.use, base_url)
    ELSE IF /\ Len(svg_element.markup) > 100
            /\ HasBytes(svg_element.markup, PathWordBytes)
            /\ HasBytes(svg_element.markup, CircleWordBytes)
            /\ HasBytes(svg_element.markup, RectWordBytes)
    THEN DataSvgPrefix \o Base64Encode(svg_element.markup)
    ELSE Nothing

\* _extract_svg_as_logo
ExtractSvgAsLogo(svg_element, base_url) ==
    IF svg_element.use /= <<>> /\ StartsWith(svg_element.use, "http") THEN svg_element.use
    ELSE IF svg_element.use /= <<>> /\ StartsWith(svg_element.use, "/") THEN
        NormalizeLogoUrl(svg_element.use, base_url)
    ELSE IF /\ Len(svg_element.markup) > 100
            /\ \/ HasBytes(svg_element.markup, PathWordBytes)
               \/ HasBytes(svg_element.markup, CircleWordBytes)
               \/ HasBytes(svg_element.markup, RectWordBytes)
    THEN DataSvgPrefix \o Base64Encode(svg_element.markup)
    ELSE Nothing

(***************************************************************************)
(* The static strategies                                                   *)
(*                                                                         *)
(* header_elements is a sequence of header regions; a region is the        *)
(* sequence, in document order, of the img and svg elements below it.      *)
(* Every element is a record                                               *)
(*   [tag, src, data_src, alt, class, id, title, width, height, net,       *)
(*    use, markup, wrap]                                                   *)
(* where wrap = [tag, class, id, hashref, href, text] is the div or a       *)
(* element directly around it (tag "none" if there is none), use is the    *)
(* href of a <use> child of an svg and markup is str(svg).  Of the four    *)
(* attributes strategy 5 looks at, elements carry title and data-src.      *)
(*                                                                         *)
(* Each strategy is a work list, in the order of the loops of the code, of *)
(* evaluations [kind, el, src, boost, conf, strategy]; RunWork performs    *)
(* them the way the bodies of those loops do.                              *)
(***************************************************************************)
RECURSIVE SelectImgs(_)
\* header.find_all('img')
SelectImgs(region) ==
    IF region = <<>> THEN <<>>
    ELSE (IF region[1].tag = "img" THEN <<region[1]>> ELSE <<>>) \o SelectImgs(Tail(region))

RECURSIVE SelectSrcImgs(_)
\* header.find_all('img', src=True)
SelectSrcImgs(region) ==
    IF region = <<>> THEN <<>>
    ELSE (IF region[1].tag = "img" /\ region[1].src /= <<>> THEN <<region[1]>> ELSE <<>>)
         \o SelectSrcImgs(Tail(region))

RECURSIVE SelectSvgs(_)
\* header.find_all('svg')
SelectSvgs(region) ==
    IF region = <<>> THEN <<>>
    ELSE (IF region[1].tag = "svg" THEN <<region[1]>> ELSE <<>>) \o SelectSvgs(Tail(region))

ImgWork(el, src, boost, conf, strategy) ==
    [kind |-> "img", el |-> el, src |-> src, boost |-> boost, conf |-> conf,
     strategy |-> strategy]

SvgWork(el, strategy) ==
    [kind |-> "svg", el |-> el, src |-> <<>>, boost |-> 0, conf |-> 0, strategy |-> strategy]

RECURSIVE Flatten(_)
\* the concatenation of the sequences of seqs, in order: what nested for
\* loops go through
Flatten(seqs) ==
    IF Len(seqs) = 0 THEN <<>> ELSE seqs[1] \o Flatten(Tail(seqs))

\* STRATEGIE 1: _find_logo_by_alt_attribute
S1Work(header_elements) ==
    LET Item(img) ==
            IF img.alt /= <<>> /\ ContainsAny(img.alt, LogoKeywords) /\ img.src /= <<>>
            THEN <<ImgWork(img, img.src, 40, 40, 1)>> ELSE <<>>
        Each(imgs) == Flatten([k \in 1..Len(imgs) |-> Item(imgs[k])])
        Region(header) == Each(SelectImgs(header))
    IN  Flatten([k \in 1..Len(header_elements) |-> Region(header_elements[k])])

\* STRATEGIE 2: _find_logo_svg_elements
S2Work(header_elements) ==
    LET ClassItem(svg) == IF Contains(svg.class, "logo") THEN <<SvgWork(svg, 2)>> ELSE <<>>
        IdItem(svg) == IF Contains(svg.id, "logo") THEN <<SvgWork(svg, 2)>> ELSE <<>>
        ContainerItem(svg) ==
            IF svg.wrap.tag \in {"div", "a", "span"} /\ Contains(svg.wrap.class, "logo")
            THEN <<SvgWork(svg, 2)>> ELSE <<>>
        Each(svgs) ==
            Flatten([k \in 1..Len(svgs) |-> ClassItem(svgs[k])])
            \o Flatten([k \in 1..Len(svgs) |-> IdItem(svgs[k])])
            \o Flatten([k \in 1..Len(svgs) |-> ContainerItem(svgs[k])])
        Region(header) == Each(SelectSvgs(header))
    IN  Flatten([k \in 1..Len(header_elements) |-> Region(header_elements[k])])

\* STRATEGIE 3: _find_logo_in_containers.  The eight selectors, in order:
\* [class*=logo], [id*=logo], [class*=brand], [id*=brand], .site-title,
\* .site-logo, .brand-logo, .company-logo
ContainerSelectors ==
    << [attr |-> "class", word |-> "logo"], [attr |-> "id", word |-> "logo"],
       [attr |-> "class", word |-> "brand"], [attr |-> "id", word |-> "brand"],
       [attr |-> "name", word |-> "site-title"], [attr |-> "name", word |-> "site-logo"],
       [attr |-> "name", word |-> "brand-logo"], [attr |-> "name", word |-> "company-logo"] >>

\* whether an element with this class list and id matches the selector
Selects(sel, class, id) ==
    CASE sel.attr = "class" -> Contains(class, sel.word)
      [] sel.attr = "id" -> Contains(id, sel.word)
      [] sel.attr = "name" -> \E i \in 1..Len(class) : class[i] = sel.word

\* header.select(selector) meets the wrapper before the element it wraps
S3Work(header_elements) ==
    LET Item(sel, el) ==
            (IF el.wrap.tag /= "none" /\ Selects(sel, el.wrap.class, el.wrap.id)
                /\ el.tag = "img" /\ el.src /= <<>>
             THEN <<ImgWork(el, el.src, 30, 30, 3)>> ELSE <<>>)
            \o (IF Selects(sel, el.class, el.id) /\ el.tag = "img" /\ el.src /= <<>>
                THEN <<ImgWork(el, el.src, 30, 30, 3)>> ELSE <<>>)
        Region(header) ==
            LET PerSelector(sel) == Flatten([k \in 1..Len(header) |-> Item(sel, header[k])])
            IN  Flatten([k \in 1..Len(ContainerSelectors) |-> PerSelector(ContainerSelectors[k])])
    IN  Flatten([k \in 1..Len(header_elements) |-> Region(header_elements[k])])

\* STRATEGIE 4: _find_logo_by_src_content
S4Work(header_elements) ==
    LET Item(img) ==
            IF Contains(img.src, "logo")
               /\ ~ContainsAny(img.src, {"icon", "avatar", "profile"})
            THEN <<ImgWork(img, img.src, 20, 20, 4)>> ELSE <<>>
        Each(imgs) == Flatten([k \in 1..Len(imgs) |-> Item(imgs[k])])
        Region(header) == Each(SelectSrcImgs(header))
    IN  Flatten([k \in 1..Len(header_elements) |-> Region(header_elements[k])])

\* STRATEGIE 5: _find_logo_by_data_attributes; the attributes of an element
\* come in the order src, alt, class, title, data-src
S5Work(header_elements) ==
    LET Src(img) == IF img.src /= <<>> THEN img.src ELSE img.data_src
        Item(img) ==
            (IF Contains(img.title, "logo") /\ Src(img) /= <<>>
             THEN <<ImgWork(img, Src(img), 20, 20, 5)>> ELSE <<>>)
            \o (IF Contains(img.data_src, "logo") /\ Src(img) /= <<>>
                THEN <<ImgWork(img, Src(img), 20, 20, 5)>> ELSE <<>>)
        Each(imgs) == Flatten([k \in 1..Len(imgs) |-> Item(imgs[k])])
        Region(header) == Each(SelectImgs(header))
    IN  Flatten([k \in 1..Len(header_elements) |-> Region(header_elements[k])])

\* STRATEGIE 6: _find_logo_by_context_analysis
IsHomeLink(link) ==
    \/ link.href \in { <<"/">>, <<"#">>, <<>>, <<".", "/">> }
    \/ ContainsAny(link.href, {"home", "index"})
    \/ ContainsAny(link.text, {"home", "accueil", "homepage", "site", "company", "organization"})
    \/ ContainsAny(link.class, {"logo", "brand"}) \/ ContainsAny(link.id, {"logo", "brand"})

S6Work(header_elements) ==
    LET Item(el) ==
            IF el.wrap.tag = "a" /\ el.wrap.hashref /\ IsHomeLink(el.wrap)
            THEN IF el.tag = "img" THEN
                     IF el.src /= <<>> THEN <<ImgWork(el, el.src, 20, 20, 6)>> ELSE <<>>
                 ELSE <<SvgWork(el, 6)>>
            ELSE <<>>
        Region(header) == Flatten([k \in 1..Len(header) |-> Item(header[k])])
    IN  Flatten([k \in 1..Len(header_elements) |-> Region(header_elements[k])])

\* STRATEGIE 7: _find_logo_intelligent_fallback
S7ExcludePatterns ==
    {"icon", "arrow", "menu", "search", "close", "burger", "hamburger",
     "facebook", "twitter", "linkedin", "instagram", "youtube", "social",
     "banner", "ad", "advertisement", "avatar", "profile", "user"}

\* w/h > r and h/w > r over the integers (w > 0 and h > 0 where evaluated)
S7DimsRejected(img) ==
    /\ AttrGiven(img.width) /\ AttrGiven(img.height)
    /\ img.width.kind = "int" /\ img.height.kind = "int"
    /\ LET w == img.width.val
           h == img.height.val
       IN  w < 30 \/ h < 20 \/ w > 10 * h \/ h > 3 * w

FirstN(seq, n) == SubSeq(seq, 1, IF Len(seq) < n THEN Len(seq) ELSE n)

\* a plausible slip: the exclusion list is not consulted
S7WorkNoExclusion(header_elements) ==
    LET Item(img) ==
            IF S7DimsRejected(img) THEN <<>>
            ELSE <<ImgWork(img, img.src, 0, 10, 7)>>
        Each(imgs) == Flatten([k \in 1..Len(imgs) |-> Item(imgs[k])])
        Region(header) == Each(FirstN(SelectSrcImgs(header), 3))
    IN  Flatten([k \in 1..Len(header_elements) |-> Region(header_elements[k])])

S7Work(header_elements) ==
    LET Item(img) ==
            IF ContainsAny(img.src, S7ExcludePatterns) THEN <<>>
            ELSE IF S7DimsRejected(img) THEN <<>>
            ELSE <<ImgWork(img, img.src, 0, 10, 7)>>
        Each(imgs) == Flatten([k \in 1..Len(imgs) |-> Item(imgs[k])])
        Region(header) == Each(FirstN(SelectSrcImgs(header), 3))
    IN  Flatten([k \in 1..Len(header_elements) |-> Region(header_elements[k])])

\* STRATEGIE 9: _find_logo_global_images_strategy
S9ExcludePatterns ==
    S7ExcludePatterns \cup
    {"gallery", "photo", "pic", "image", "thumb", "preview",
     "button", "background", "bg", "pattern", "texture"}

S9DimsRejected(img) ==
    /\ AttrGiven(img.width) /\ AttrGiven(img.height)
    /\ img.width.kind = "int" /\ img.height.kind = "int"
    /\ LET w == img.width.val
           h == img.height.val
       IN  w < 30 \/ h < 20 \/ w > 800 \/ h > 400 \/ w > 8 * h \/ h > 3 * w

S9Work(all_images) ==
    LET Item(img) ==
            IF ContainsAny(img.src, S9ExcludePatterns)
               \/ ContainsAny(img.alt, S9ExcludePatterns)
            THEN <<>>
            ELSE IF S9DimsRejected(img) THEN <<>>
            ELSE IF ContainsAny(img.src, LogoKeywords) \/ ContainsAny(img.alt, LogoKeywords)
            THEN <<ImgWork(img, img.src, 15, 15, 9)>>
            ELSE <<ImgWork(img, img.src, 5, 5, 9)>>
        Each(imgs) == Flatten([k \in 1..Len(imgs) |-> Item(imgs[k])])
    IN  Each(FirstN(all_images, 10))

(***************************************************************************)
(* Running a work list                                                     *)
(***************************************************************************)
\* a request of validate_logo_image_fast or validate_logo_image for this
\* URL was answered with status 200 and the content type of an image
ImageConfirmed(logo_url, net) ==
    /\ logo_url /= <<>> /\ StrLen(logo_url) >= 10
    /\ ~StartsWith(logo_url, "data:")
    /\ ContainsAny(logo_url, ValidExtensions)
    /\ \/ net.head.status = 200 /\ IsImageType(net.head.ctype)
       \/ net.head.status = 0 /\ net.get.status = 200 /\ IsImageType(net.get.ctype)

Confirm(known, logo_url, net) ==
    IF ImageConfirmed(logo_url, net) THEN known \cup {logo_url} ELSE known

StrategyResult(ret, cands, known, gated, score) ==
    [ret |-> ret, cands |-> cands, confirmed |-> known, scored |-> gated, score |-> score]

RECURSIVE RunWork(_, _, _, _)
\* the loop bodies of strategies 1-7 and 9: return the first element that
\* passes, record the img elements that do not
RunWork(work, base_url, cands, known) ==
    LET SvgStep(it, svg_url) ==
            IF svg_url /= <<>> THEN StrategyResult(svg_url, cands, known, FALSE, 0)
            ELSE RunWork(Tail(work), base_url, cands, known)
        ImgStep(it, logo_url) ==
            LET Decide(score, seen) ==
                    IF IsValidLogoCandidate(logo_url, it.el, it.boost, it.el.net)
                    THEN StrategyResult(logo_url, cands, seen, TRUE, score)
                    ELSE RunWork(Tail(work), base_url,
                                 AddLogoCandidate(cands, logo_url, it.el, it.conf,
                                                  it.strategy, score),
                                 seen)
            IN  Decide(GateScore(logo_url, it.el, it.boost),
                       Confirm(known, logo_url, it.el.net))
    IN  IF work = <<>> THEN StrategyResult(Nothing, cands, known, FALSE, 0)
        ELSE IF work[1].kind = "svg"
        THEN SvgStep(work[1], ExtractSvgAsLogo(work[1].el, base_url))
        ELSE ImgStep(work[1], NormalizeLogoUrl(work[1].src, base_url))

(***************************************************************************)
(* STRATEGIE 8: _find_logo_favicon_strategy                                *)
(* A link is [rel, href, sizes, net], sizes being [kind, w, h] with kind   *)
(* "none" (no sizes), "dims" (two integers around an x) or "text".         *)
(***************************************************************************)
FaviconSelectors ==
    << "icon", "shortcut icon", "apple-touch-icon", "apple-touch-icon-precomposed",
       "mask-icon", "fluid-icon" >>

SizeScore(sizes) ==
    IF sizes.kind = "dims" THEN
        IF sizes.w >= 64 /\ sizes.h >= 64 THEN 30
        ELSE IF sizes.w >= 32 /\ sizes.h >= 32 THEN 20
        ELSE 10
    ELSE 10

FaviconCandidates(links, base_url) ==
    LET PerSelector(rel) ==
            LET PerLink(link) ==
                    IF link.rel = rel /\ link.href /= <<>>
                    THEN << [url |-> NormalizeLogoUrl(link.href, base_url),
                             score |-> SizeScore(link.sizes), net |-> link.net] >>
                    ELSE <<>>
            IN  Flatten([k \in 1..Len(links) |-> PerLink(links[k])])
    IN  Flatten([k \in 1..Len(FaviconSelectors) |-> PerSelector(FaviconSelectors[k])])

RECURSIVE InsertDesc(_, _)
\* puts x behind every element of the sorted sequence whose key is not smaller
InsertDesc(sorted, x) ==
    IF sorted = <<>> THEN <<x>>
    ELSE IF sorted[1].key >= x.key THEN <<sorted[1]>> \o InsertDesc(Tail(sorted), x)
    ELSE <<x>> \o sorted

RECURSIVE SortKeyed(_)
SortKeyed(keyed) ==
    IF keyed = <<>> THEN <<>>
    ELSE InsertDesc(SortKeyed(SubSeq(keyed, 1, Len(keyed) - 1)), keyed[Len(keyed)])

\* a plausible slip: the list is gone through as collected
SortDescSkipped(keyed) ==
    [i \in 1..Len(keyed) |-> keyed[i].val]

\* list.sort(key=..., reverse=True) and sorted(..., reverse=True), stable;
\* keyed holds each element as val beside its sort key
SortDesc(keyed) ==
    LET Vals(sorted) == [i \in 1..Len(sorted) |-> sorted[i].val]
    IN  Vals(SortKeyed(keyed))

RECURSIVE FirstValidFavicon(_, _)
FirstValidFavicon(favicon_candidates, known) ==
    IF favicon_candidates = <<>> THEN StrategyResult(Nothing, <<>>, known, FALSE, 0)
    ELSE IF ValidateLogoImage(favicon_candidates[1].url, favicon_candidates[1].net)
    THEN StrategyResult(favicon_candidates[1].url, <<>>,
                        Confirm(known, favicon_candidates[1].url,
                                favicon_candidates[1].net), FALSE, 0)
    ELSE FirstValidFavicon(Tail(favicon_candidates), known)

\* a plausible slip: the default icon is returned as the path it was tested by
FaviconStrategyReturnsPath(soup, base_url, cands, known) ==
    LET ByScore(seq) == [i \in 1..Len(seq) |-> [key |-> seq[i].score, val |-> seq[i]]]
        Try(default_favicon) ==
            IF ValidateLogoImage(default_favicon, soup.favNet)
            THEN StrategyResult(<<"/", "favicon.ico">>, cands,
                                Confirm(known, default_favicon, soup.favNet), FALSE, 0)
            ELSE [FirstValidFavicon(SortDesc(ByScore(FaviconCandidates(soup.links,
                                                                        base_url))), known)
                  EXCEPT !.cands = cands]
    IN  Try(UrlJoin(base_url, <<"/", "favicon.ico">>))

FaviconStrategy(soup, base_url, cands, known) ==
    LET ByScore(seq) == [i \in 1..Len(seq) |-> [key |-> seq[i].score, val |-> seq[i]]]
        Try(default_favicon) ==
            IF ValidateLogoImage(default_favicon, soup.favNet)
            THEN StrategyResult(default_favicon, cands,
                                Confirm(known, default_favicon, soup.favNet), FALSE, 0)
            ELSE [FirstValidFavicon(SortDesc(ByScore(FaviconCandidates(soup.links,
                                                                        base_url))), known)
                  EXCEPT !.cands = cands]
    IN  Try(UrlJoin(base_url, <<"/", "favicon.ico">>))

(***************************************************************************)
(* STRATEGIE 10: _find_logo_ai_analysis_strategy                           *)
(*                                                                         *)
(* The scores are Python floats.  A float is <<h, o>>: h its value rounded *)
(* to hundredths, o how many doubles it lies above (below, if negative)    *)
(* the double of that decimal (9xx codes: the three tiny non-zero sums     *)
(* that round to 0.00).  FloatAddRounded lists every addition a + b = r of *)
(* the score computations whose IEEE-754 result is not the double of the   *)
(* decimal sum, as <<a.h, a.o, b.h, b.o, r.h, r.o>>.                       *)
(***************************************************************************)
FloatAddRounded ==
    {
      <<-10, -1, -20, 0, -30, -1>>, <<-10, -1, -10, 0, -20, 0>>, <<-10, -1, 0, 0, -10, -1>>, <<-10, -1, 10, 0, 0, -902>>,
      <<-10, -1, 20, 0, 10, -1>>, <<-10, -1, 30, 0, 20, -2>>, <<-10, 0, -5, 0, -15, -1>>, <<-5, -2, -20, 0, -25, 0>>,
      <<-5, -2, -10, 0, -15, -1>>, <<-5, -2, 0, 0, -5, -2>>, <<-5, -2, 10, 0, 5, -2>>, <<-5, -2, 20, 0, 15, 0>>,
      <<-5, -2, 30, 0, 25, -1>>, <<-5, 0, -10, 0, -15, -1>>, <<-5, 0, 20, 0, 15, 1>>, <<0, -901, -20, 0, -20, -1>>,
      <<0, -901, -10, 0, -10, -2>>, <<0, -901, 0, 0, 0, -901>>, <<0, -901, 10, 0, 10, -2>>, <<0, -901, 20, 0, 20, -1>>,
      <<0, -901, 30, 0, 30, -1>>, <<5, -2, -20, 0, -15, -1>>, <<5, -2, -10, 0, -5, -2>>, <<5, -2, 0, 0, 5, -2>>,
      <<5, -2, 10, 0, 15, 0>>, <<5, -2, 20, 0, 25, 0>>, <<5, -2, 30, 0, 35, 0>>, <<5, 0, -20, 0, -15, -1>>,
      <<5, 0, -15, -1, -10, -1>>, <<5, 0, 10, 0, 15, 1>>, <<5, 0, 15, -1, 20, -2>>, <<5, 0, 15, 1, 20, 0>>,
      <<5, 0, 20, -1, 25, 0>>, <<5, 0, 20, 1, 25, 1>>, <<5, 0, 25, 1, 30, 1>>, <<5, 0, 30, 1, 35, 1>>,
      <<5, 0, 35, 1, 40, 0>>, <<5, 0, 45, 2, 50, 1>>, <<10, -1, -20, 0, -10, -1>>, <<10, -1, -10, 0, 0, -902>>,
      <<10, -1, 0, 0, 10, -1>>, <<10, -1, 10, 0, 20, 0>>, <<10, -1, 20, 0, 30, 0>>, <<10, -1, 30, 0, 40, -1>>,
      <<10, 0, -15, -1, -5, -2>>, <<10, 0, 5, 0, 15, 1>>, <<10, 0, 15, -1, 25, -1>>, <<10, 0, 15, 1, 25, 0>>,
      <<10, 0, 20, -1, 30, 0>>, <<10, 0, 20, 0, 30, 1>>, <<10, 0, 20, 1, 30, 1>>, <<10, 0, 25, 1, 35, 2>>,
      <<10, 0, 30, 1, 40, 0>>, <<10, 0, 35, 1, 45, 1>>, <<10, 0, 45, 2, 55, 1>>, <<15, -1, -20, 0, -5, -6>>,
      <<15, -1, -10, 0, 5, -6>>, <<15, -1, 0, 0, 15, -1>>, <<15, -1, 10, 0, 25, -1>>, <<15, -1, 20, 0, 35, 0>>,
      <<15, -1, 30, 0, 45, -1>>, <<15, 0, -20, 0, -5, -2>>, <<15, 0, -15, -1, 0, -901>>, <<15, 0, -10, 0, 5, -2>>,
      <<15, 0, -5, 0, 10, -1>>, <<15, 0, 15, -1, 30, -1>>, <<15, 0, 15, 1, 30, 1>>, <<15, 0, 20, -1, 35, 0>>,
      <<15, 0, 20, 1, 35, 1>>, <<15, 0, 25, 1, 40, 0>>, <<15, 0, 30, 0, 45, -1>>, <<15, 0, 30, 1, 45, 1>>,
      <<15, 0, 35, 1, 50, 0>>, <<15, 0, 45, 2, 60, 1>>, <<15, 1, -20, 0, -5, 2>>, <<15, 1, -10, 0, 5, 2>>,
      <<15, 1, 0, 0, 15, 1>>, <<15, 1, 10, 0, 25, 0>>, <<15, 1, 20, 0, 35, 1>>, <<15, 1, 30, 0, 45, 0>>,
      <<20, -2, -20, 0, 0, -903>>, <<20, -2, -10, 0, 10, -4>>, <<20, -2, 0, 0, 20, -2>>, <<20, -2, 10, 0, 30, -1>>,
      <<20, -2, 20, 0, 40, -1>>, <<20, -2, 30, 0, 50, -1>>, <<20, -1, -20, 0, 0, -901>>, <<20, -1, -10, 0, 10, -2>>,
      <<20, -1, -5, 0, 15, -1>>, <<20, -1, 0, 0, 20, -1>>, <<20, -1, 10, 0, 30, 0>>, <<20, -1, 20, 0, 40, 0>>,
      <<20, -1, 30, 0, 50, 0>>, <<20, 0, -15, -1, 5, -2>>, <<20, 0, -5, 0, 15, 1>>, <<20, 0, 10, 0, 30, 1>>,
      <<20, 0, 15, -1, 35, 0>>, <<20, 0, 15, 1, 35, 1>>, <<20, 0, 20, -1, 40, 0>>, <<20, 0, 20, 1, 40, 0>>,
      <<20, 0, 25, 1, 45, 1>>, <<20, 0, 30, 1, 50, 0>>, <<20, 0, 35, 1, 55, 0>>, <<20, 0, 40, 0, 60, 1>>,
      <<20, 0, 45, 2, 65, 1>>, <<20, 1, -5, 0, 15, 1>>, <<25, -1, -20, 0, 5, -6>>, <<25, -1, -10, 0, 15, -1>>,
      <<25, -1, 0, 0, 25, -1>>, <<25, -1, 10, 0, 35, 0>>, <<25, -1, 20, 0, 45, -1>>, <<25, -1, 30, 0, 55, -1>>,
      <<25, 0, -20, 0, 5, -2>>, <<25, 1, -20, 0, 5, 6>>, <<25, 1, -10, 0, 15, 2>>, <<25, 1, 0, 0, 25, 1>>,
      <<25, 1, 10, 0, 35, 2>>, <<25, 1, 20, 0, 45, 1>>, <<25, 1, 30, 0, 55, 0>>, <<30, -1, -20, 0, 10, -6>>,
      <<30, -1, -10, 0, 20, -3>>, <<30, -1, 0, 0, 30, -1>>, <<30, -1, 10, 0, 40, -2>>, <<30, -1, 20, 0, 50, -1>>,
      <<30, -1, 30, 0, 60, -1>>, <<30, 0, -20, 0, 10, -2>>, <<30, 0, -15, -1, 15, -1>>, <<30, 0, -10, 0, 20, -1>>,
      <<30, 0, 15, -1, 45, -1>>, <<30, 0, 15, 1, 45, 0>>, <<30, 0, 20, -1, 50, 0>>, <<30, 0, 20, 1, 50, 0>>,
      <<30, 0, 25, 1, 55, 0>>, <<30, 0, 30, 1, 60, 1>>, <<30, 0, 35, 1, 65, 0>>, <<30, 0, 45, 2, 75, 1>>,
      <<30, 1, -20, 0, 10, 2>>, <<30, 1, -10, 0, 20, 1>>, <<30, 1, -5, 0, 25, 1>>, <<30, 1, 0, 0, 30, 1>>,
      <<30, 1, 10, 0, 40, 0>>, <<30, 1, 20, 0, 50, 0>>, <<30, 1, 30, 0, 60, 1>>, <<35, 0, -20, 0, 15, -1>>,
      <<35, 0, -10, 0, 25, -1>>, <<35, 0, 10, 0, 45, -1>>, <<35, 0, 30, 0, 65, -1>>, <<35, 1, -20, 0, 15, 1>>,
      <<35, 1, -10, 0, 25, 0>>, <<35, 1, 0, 0, 35, 1>>, <<35, 1, 10, 0, 45, 1>>, <<35, 1, 20, 0, 55, 0>>,
      <<35, 1, 30, 0, 65, 0>>, <<35, 2, -20, 0, 15, 3>>, <<35, 2, -10, 0, 25, 2>>, <<35, 2, 0, 0, 35, 2>>,
      <<35, 2, 10, 0, 45, 1>>, <<35, 2, 20, 0, 55, 0>>, <<35, 2, 30, 0, 65, 1>>, <<40, 0, -15, -1, 25, 0>>,
      <<40, 0, -10, 0, 30, 1>>, <<40, 0, -5, 0, 35, 1>>, <<40, 0, 15, -1, 55, 0>>, <<40, 0, 15, 1, 55, 0>>,
      <<40, 0, 20, -1, 60, 0>>, <<40, 0, 20, 0, 60, 1>>, <<40, 0, 20, 1, 60, 1>>, <<40, 0, 25, 1, 65, 1>>,
      <<40, 0, 30, 1, 70, 1>>, <<40, 0, 35, 1, 75, 0>>, <<40, 0, 45, 0, 85, 1>>, <<40, 0, 45, 2, 85, 1>>,
      <<45, -1, -20, 0, 25, -2>>, <<45, -1, -10, 0, 35, 0>>, <<45, -1, 0, 0, 45, -1>>, <<45, -1, 10, 0, 55, -1>>,
      <<45, -1, 20, 0, 65, -1>>, <<45, -1, 30, 0, 75, 0>>, <<45, 1, -20, 0, 25, 1>>, <<45, 1, -10, 0, 35, 2>>,
      <<45, 1, 0, 0, 45, 1>>, <<45, 1, 10, 0, 55, 0>>, <<45, 1, 20, 0, 65, 1>>, <<45, 1, 30, 0, 75, 0>>,
      <<50, 1, -20, 0, 30, 2>>, <<50, 1, -10, 0, 40, 2>>, <<50, 1, -5, 0, 45, 2>>, <<50, 1, 0, 0, 50, 1>>,
      <<50, 1, 10, 0, 60, 1>>, <<50, 1, 20, 0, 70, 2>>, <<50, 1, 30, 0, 80, 0>>, <<55, 0, -20, 0, 35, 1>>,
      <<55, 0, -10, 0, 45, 1>>, <<55, 0, 30, 0, 85, 1>>, <<55, 1, -20, 0, 35, 3>>, <<55, 1, -10, 0, 45, 3>>,
      <<55, 1, 0, 0, 55, 1>>, <<55, 1, 10, 0, 65, 1>>, <<55, 1, 20, 0, 75, 2>>, <<55, 1, 30, 0, 85, 1>>,
      <<60, 0, -20, 0, 40, -1>>, <<60, 0, -5, 0, 55, -1>>, <<60, 0, 30, 0, 90, -1>>, <<60, 1, -20, 0, 40, 1>>,
      <<60, 1, -10, 0, 50, 1>>, <<60, 1, -5, 0, 55, 0>>, <<60, 1, 0, 0, 60, 1>>, <<60, 1, 10, 0, 70, 1>>,
      <<60, 1, 20, 0, 80, 0>>, <<60, 1, 30, 0, 90, 1>>, <<65, 0, 20, 0, 85, 1>>, <<65, 1, -20, 0, 45, 2>>,
      <<65, 1, -10, 0, 55, 1>>, <<65, 1, 0, 0, 65, 1>>, <<65, 1, 10, 0, 75, 1>>, <<65, 1, 20, 0, 85, 1>>,
      <<65, 1, 30, 0, 95, 2>>, <<70, 0, -20, 0, 50, -1>>, <<70, 0, -5, 0, 65, -1>>, <<70, 0, 10, 0, 80, -1>>,
      <<70, 0, 20, 0, 90, -1>>, <<70, 1, -20, 0, 50, 0>>, <<70, 1, -10, 0, 60, 1>>, <<70, 1, -5, 0, 65, 0>>,
      <<70, 1, 0, 0, 70, 1>>, <<70, 1, 10, 0, 80, 0>>, <<70, 1, 20, 0, 90, 1>>, <<70, 1, 30, 0, 100, 0>>,
      <<75, 1, -20, 0, 55, 0>>, <<75, 1, -10, 0, 65, 1>>, <<75, 1, 0, 0, 75, 1>>, <<75, 1, 10, 0, 85, 1>>,
      <<75, 1, 20, 0, 95, 2>>, <<75, 1, 30, 0, 105, 0>>, <<80, -1, -10, 0, 70, 0>>, <<80, -1, -5, 0, 75, -1>>,
      <<80, 0, -20, 0, 60, 1>>, <<80, 0, -10, 0, 70, 1>>, <<85, 1, -20, 0, 65, 1>>, <<85, 1, -10, 0, 75, 1>>,
      <<85, 1, 0, 0, 85, 1>>, <<85, 1, 10, 0, 95, 1>>, <<85, 1, 20, 0, 105, 0>>, <<85, 1, 30, 0, 115, 1>>
    }

FloatAdd(a, b) ==
    LET Pick(hit) ==
            IF hit = {} THEN <<a[1] + b[1], 0>>
            ELSE <<(CHOOSE x \in hit : TRUE)[5], (CHOOSE x \in hit : TRUE)[6]>>
    IN  Pick({e \in FloatAddRounded :
                 e[1] = a[1] /\ e[2] = a[2] /\ e[3] = b[1] /\ e[4] = b[2]})

FloatOf(h) == <<h, 0>>
FloatLess(a, b) == a[1] < b[1] \/ (a[1] = b[1] /\ a[2] < b[2])
FloatMin(a, b) == IF FloatLess(b, a) THEN b ELSE a
FloatAddIf(cond, a, h) == IF cond THEN FloatAdd(a, FloatOf(h)) ELSE a

\* _analyze_logo_url_features
AnalyzeLogoUrlFeatures(logo_url) ==
    IF logo_url = <<>> THEN FloatOf(0)
    ELSE
    LET s1 == IF ContainsAny(logo_url, {".svg", ".png"}) THEN FloatOf(20)
              ELSE IF ContainsAny(logo_url, {".jpg", ".jpeg", ".webp"}) THEN FloatOf(10)
              ELSE FloatOf(0)
        s2 == FloatAddIf(Contains(logo_url, "logo"), s1, 30)
        s3 == FloatAddIf(ContainsAny(logo_url, {"brand", "company", "org"}), s2, 20)
        s4 == FloatAddIf(ContainsAny(logo_url, {"/assets/", "/images/", "/img/", "/static/"}),
                         s3, 10)
        s5 == FloatAddIf(Contains(logo_url, "thumb") \/ Contains(logo_url, "small"), s4, -10)
        s6 == FloatAddIf(Contains(logo_url, "large") \/ Contains(logo_url, "big"), s5, -5)
    IN  FloatMin(s6, FloatOf(50))

\* _analyze_logo_visual_features; pix = [ok, w, h, rgb, colors], colors = 0
\* when getcolors(maxcolors=256) gives None.  has_pil: the module imports
\* Image and io (african_opportunities_scraper.py does,
\* scraper_disruptafrica.py does not, and the NameError is caught).
AnalyzeLogoVisualFeatures(logo_url, net, has_pil) ==
    LET width  == net.pix.w
        height == net.pix.h
        Colors(s2) ==
            FloatMin(IF net.pix.rgb /\ net.pix.colors > 0 /\ net.pix.colors <= 10
                     THEN FloatAdd(s2, FloatOf(10))
                     ELSE IF net.pix.rgb /\ net.pix.colors > 50 THEN FloatAdd(s2, FloatOf(-10))
                     ELSE s2,
                     FloatOf(30))
        Size(s1) ==
            Colors(IF 50 <= width /\ width <= 500 /\ 30 <= height /\ height <= 300
                   THEN FloatAdd(s1, FloatOf(20))
                   ELSE IF width < 50 \/ height < 30 THEN FloatAdd(s1, FloatOf(-10))
                   ELSE s1)
    IN  IF net.get.status /= 200 THEN FloatOf(0)
        ELSE IF ~has_pil \/ ~net.pix.ok THEN FloatOf(0)
        ELSE Size(IF height > 0 /\ 2 * width >= height /\ width <= 4 * height
                  THEN FloatOf(20) ELSE FloatOf(0))

TotalScore(candidate, has_pil) ==
    FloatAdd(FloatAdd(FloatOf(candidate.confidence), AnalyzeLogoUrlFeatures(candidate.url)),
             AnalyzeLogoVisualFeatures(candidate.url, candidate.net, has_pil))

RECURSIVE FirstAbove(_, _)
\* the loop over sorted_candidates[:3]
FirstAbove(top, has_pil) ==
    IF top = <<>> THEN <<>>
    ELSE IF FloatLess(FloatOf(60), TotalScore(top[1], has_pil)) THEN <<top[1]>>
    ELSE FirstAbove(Tail(top), has_pil)

AiAnalysisStrategy(cands, known, has_pil) ==
    LET ByConfidence(seq) ==
            [i \in 1..Len(seq) |-> [key |-> seq[i].confidence, val |-> seq[i]]]
        Return(hit) ==
            IF hit = <<>> THEN StrategyResult(Nothing, cands, known, FALSE, 0)
            ELSE StrategyResult(hit[1].url, cands, known, TRUE, hit[1].gate)
    IN  IF cands = <<>> THEN StrategyResult(Nothing, cands, known, FALSE, 0)
        ELSE Return(FirstAbove(FirstN(SortDesc(ByConfidence(cands)), 3), has_pil))

(***************************************************************************)
(* STRATEGIE 11: _find_logo_dynamic_strategy                               *)
(*                                                                         *)
(* The rendered page is [outcome, headers, body, links]: outcome tells    *)
(* whether the browser launched, the navigation ended and the queries of   *)
(* the page answered; a header is [sels, els], sels the header selectors   *)
(* (1..5) that match it and els its img and svg elements in document       *)
(* order; links are the icon links the rendered head declares.             *)
(***************************************************************************)
DynHeaderSelectors == <<1, 2, 3, 4, 5>>

SvgTagBytes == <<60, 115, 118, 103, 62>>

RECURSIVE InnerHtml(_)
\* svg.inner_html(): what follows the opening tag, without the closing tag
InnerHtml(markup) ==
    IF markup = <<>> THEN <<>>
    ELSE IF markup[1] = 62 THEN SubSeq(markup, 2, Len(markup) - Len(SvgCloseBytes))
    ELSE InnerHtml(Tail(markup))

DynSvgUrl(svg) ==
    LET Encode(svg_content) ==
            IF Len(svg_content) > 50
            THEN DataSvgPrefix \o Base64Encode(SvgTagBytes \o svg_content \o SvgCloseBytes)
            ELSE Nothing
    IN  Encode(InnerHtml(svg.markup))

\* img[alt*="logo" i], img[src*="logo" i]
DynLogoImg(el) ==
    el.tag = "img" /\ (Contains(el.alt, "logo") \/ Contains(el.src, "logo"))

\* a[href="/"], a[href="./"], a[class*="logo" i], a[class*="brand" i]
DynLogoLink(link) ==
    /\ link.tag = "a"
    /\ \/ link.hashref /\ link.href \in { <<"/">>, <<".", "/">> }
       \/ Contains(link.class, "logo") \/ Contains(link.class, "brand")

DynWork(page) ==
    LET ImgWorkOf(el) == [kind |-> "img", el |-> el]
        SvgWorkOf(el) == [kind |-> "svg", el |-> el]
        HeaderWork(header) ==
            LET ImgItem(el) == IF DynLogoImg(el) THEN <<ImgWorkOf(el)>> ELSE <<>>
                SvgItem(el) ==
                    IF el.tag = "svg" /\ (Contains(el.class, "logo") \/ Contains(el.id, "logo"))
                    THEN <<SvgWorkOf(el)>> ELSE <<>>
                LinkItem(el) ==
                    IF DynLogoLink(el.wrap)
                    THEN IF el.tag = "img" THEN <<ImgWorkOf(el)>> ELSE <<SvgWorkOf(el)>>
                    ELSE <<>>
            IN  Flatten([k \in 1..Len(header.els) |-> ImgItem(header.els[k])])
                \o Flatten([k \in 1..Len(header.els) |-> SvgItem(header.els[k])])
                \o Flatten([k \in 1..Len(header.els) |-> LinkItem(header.els[k])])
        PerSelector(selector) ==
            LET PerHeader(header) ==
                    IF selector \in header.sels THEN HeaderWork(header) ELSE <<>>
            IN  Flatten([k \in 1..Len(page.headers) |-> PerHeader(page.headers[k])])
        LogoImg(el) == IF DynLogoImg(el) THEN <<el>> ELSE <<>>
        LogoImgs(els) == Flatten([k \in 1..Len(els) |-> LogoImg(els[k])])
        WorkOf(els) == [k \in 1..Len(els) |-> ImgWorkOf(els[k])]
    IN  Flatten([k \in 1..Len(DynHeaderSelectors) |-> PerSelector(DynHeaderSelectors[k])])
        \o WorkOf(FirstN(LogoImgs(Flatten([k \in 1..Len(page.headers) |-> page.headers[k].els])
                                   \o page.body), 5))

RECURSIVE RunDynWork(_, _, _)
RunDynWork(work, base_url, known) ==
    LET SvgStep(svg_url) ==
            IF svg_url /= <<>> THEN StrategyResult(svg_url, <<>>, known, FALSE, 0)
            ELSE RunDynWork(Tail(work), base_url, known)
        ImgStep(el, full_url) ==
            IF el.src /= <<>> /\ ValidateLogoImage(full_url, el.net)
            THEN StrategyResult(full_url, <<>>, Confirm(known, full_url, el.net), FALSE, 0)
            ELSE RunDynWork(Tail(work), base_url, known)
    IN  IF work = <<>> THEN StrategyResult(Nothing, <<>>, known, FALSE, 0)
        ELSE IF work[1].kind = "svg" THEN SvgStep(DynSvgUrl(work[1].el))
        ELSE ImgStep(work[1].el, UrlJoin(base_url, work[1].el.src))

DynamicStrategy(page, base_url, known) ==
    RunDynWork(DynWork(page), base_url, known)

(***************************************************************************)
(* The pages the resolver is run on                                        *)
(***************************************************************************)
Responses ==
    [raised   |-> [status |-> 0, ctype |-> "", sig |-> FALSE],
     image    |-> [status |-> 200, ctype |-> "image/png", sig |-> FALSE],
     html     |-> [status |-> 200, ctype |-> "text/html", sig |-> FALSE],
     notFound |-> [status |-> 404, ctype |-> "text/html", sig |-> FALSE],
     icoBytes |-> [status |-> 200, ctype |-> "application/octet-stream", sig |-> TRUE]]

Pictures ==
    [none  |-> [ok |-> FALSE, w |-> 0, h |-> 0, rgb |-> FALSE, colors |-> 0],
     logo  |-> [ok |-> TRUE, w |-> 200, h |-> 100, rgb |-> TRUE, colors |-> 8],
     photo |-> [ok |-> TRUE, w |-> 1200, h |-> 800, rgb |-> TRUE, colors |-> 0]]

\* what the requests for one URL answer
Nets ==
    [ok          |-> [head |-> Responses.image, get |-> Responses.image, pix |-> Pictures.logo],
     photo       |-> [head |-> Responses.image, get |-> Responses.image, pix |-> Pictures.photo],
     down        |-> [head |-> Responses.raised, get |-> Responses.raised, pix |-> Pictures.none],
     headRefused |-> [head |-> Responses.notFound, get |-> Responses.image,
                      pix |-> Pictures.logo],
     headRaises  |-> [head |-> Responses.raised, get |-> Responses.image, pix |-> Pictures.logo],
     html        |-> [head |-> Responses.html, get |-> Responses.html, pix |-> Pictures.none],
     ico         |-> [head |-> Responses.raised, get |-> Responses.icoBytes,
                      pix |-> Pictures.none],
     icoHead     |-> [head |-> Responses.icoBytes, get |-> Responses.icoBytes,
                      pix |-> Pictures.none]]

NoAttr == [kind |-> "none", val |-> 0]
IntAttr(n) == [kind |-> "int", val |-> n]
TextAttr == [kind |-> "text", val |-> 0]

\* the element directly around an img or svg
Wraps ==
    [none   |-> [tag |-> "none", class |-> <<>>, id |-> <<>>, hashref |-> FALSE,
                 href |-> <<>>, text |-> <<>>],
     home   |-> [tag |-> "a", class |-> <<>>, id |-> <<>>, hashref |-> TRUE,
                 href |-> <<"/">>, text |-> <<"Home">>],
     donate |-> [tag |-> "a", class |-> <<>>, id |-> <<>>, hashref |-> TRUE,
                 href |-> <<"/", "about">>, text |-> <<"Donate">>],
     brand  |-> [tag |-> "div", class |-> <<"brand">>, id |-> <<>>, hashref |-> FALSE,
                 href |-> <<>>, text |-> <<>>]]

Img(src, alt, class, dims, net, wrap) ==
    [tag |-> "img", src |-> src, data_src |-> <<>>, alt |-> alt, class |-> class,
     id |-> <<>>, title |-> <<>>, width |-> dims[1], height |-> dims[2], net |-> net,
     use |-> <<>>, markup |-> <<>>, wrap |-> wrap]

Svg(class, id, use, markup, wrap) ==
    [tag |-> "svg", src |-> <<>>, data_src |-> <<>>, alt |-> <<>>, class |-> class,
     id |-> id, title |-> <<>>, width |-> NoAttr, height |-> NoAttr, net |-> Nets.down,
     use |-> use, markup |-> markup, wrap |-> wrap]

\* the longest title text of an inline svg
MaxPad == 14

Pad(n) == [i \in 1..n |-> 76]

\* <svg class="logo" viewbox="0 0 64 64"><title>LL...L</title>
\* <path d="M4 4L60 60"></path></svg>: 87 + n characters
PathMarkup(n) ==
    SvgOpenBytes \o Pad(n) \o SvgTitleEndBytes \o PathElementBytes \o SvgCloseBytes

\* the same around <g id="mark"></g>: 76 + n characters, no drawing primitive
GroupMarkup(n) ==
    SvgOpenBytes \o Pad(n) \o SvgTitleEndBytes \o GroupElementBytes \o SvgCloseBytes

ImgSrcs ==
    { <<"logo.png">>,
      <<"/", "images", "/", "brand.png">>,
      <<"https://", "cdn.net", "/", "logo.png">>,
      <<"/", "/", "cdn.net", "/", "logo.png">>,
      <<"data:image/png;base64,", "iVBORw0KGgo=">>,
      <<"/", "assets", "/", "logo">>,
      <<"menu-burger-icon.png">>,
      <<"/", "img", "/", "pic.jpg">> }

ImgElements ==
    { Img(src, alt, class, dims, net, wrap) :
        src \in ImgSrcs, alt \in { <<>>, <<"Company Logo">> },
        class \in { <<>>, <<"nav-img">> },
        dims \in { <<NoAttr, NoAttr>>, <<IntAttr(64), IntAttr(64)>> },
        net \in {Nets.ok, Nets.down, Nets.headRefused},
        wrap \in {Wraps.none, Wraps.home} }
    \cup { Img(<<"/", "img", "/", "pic.jpg">>, <<>>, class, <<IntAttr(16), TextAttr>>,
               net, wrap) :
             class \in { <<"logo">>, <<>> }, net \in {Nets.photo, Nets.html, Nets.headRaises},
             wrap \in {Wraps.brand, Wraps.donate} }
    \cup { [Img(<<>>, <<>>, <<>>, <<NoAttr, NoAttr>>, net, Wraps.none)
               EXCEPT !.data_src = <<"/", "assets", "/", "logo.png">>, !.title = title] :
             net \in {Nets.ok, Nets.down}, title \in { <<>>, <<"Company Logo">> } }

SvgElements ==
    { Svg(class, <<>>, <<>>, PathMarkup(n), wrap) :
        class \in { <<"logo">>, <<>> }, n \in (MaxPad - 2)..MaxPad,
        wrap \in {Wraps.none, Wraps.home} }
    \cup { Svg(<<"logo">>, <<>>, <<>>, GroupMarkup(MaxPad + 12), Wraps.none),
           Svg(<<>>, <<"logo">>, <<>>, PathMarkup(MaxPad), Wraps.none) }
    \cup { Svg(<<"logo">>, <<>>, use, PathMarkup(MaxPad), wrap) :
             use \in { <<"https://", "cdn.net", "/", "sprite">>,
                       <<"/", "assets", "/", "sprite.svg">>, <<"#mark">> },
             wrap \in {Wraps.none, Wraps.home} }

IconLink(rel, href, sizes, net) == [rel |-> rel, href |-> href, sizes |-> sizes, net |-> net]
Dims(w, h) == [kind |-> "dims", w |-> w, h |-> h]
NoSizes == [kind |-> "none", w |-> 0, h |-> 0]

\* what the head of the document declares, and what /favicon.ico answers
Favicons ==
    { [links |-> <<>>, favNet |-> Nets.down],
      [links |-> <<>>, favNet |-> Nets.ok],
      [links |-> <<>>, favNet |-> Nets.ico],
      [links |-> << IconLink("icon", <<"/", "img", "/", "favicon.ico">>, Dims(32, 32), Nets.ok),
                    IconLink("apple-touch-icon", <<"/", "img", "/", "touch.png">>,
                             Dims(64, 64), Nets.ok) >>,
       favNet |-> Nets.down] }

BodyImages ==
    { <<>>,
      << Img(<<"https://", "cdn.net", "/", "brand.png">>, <<"Company Logo">>, <<>>,
             <<NoAttr, NoAttr>>, Nets.ok, Wraps.none) >> }

Page(header_elements, body, fav) ==
    [header_elements |-> header_elements, body |-> body,
     links |-> fav.links, favNet |-> fav.favNet]

\* two images that both fail the gate, the weaker one first
TwoCandidates ==
    << Img(<<"/", "images", "/", "brand.png">>, <<>>, <<>>, <<NoAttr, NoAttr>>, Nets.ok, Wraps.none),
       Img(<<"logo.png">>, <<"Company Logo">>, <<>>, <<NoAttr, NoAttr>>, Nets.down, Wraps.none) >>

\* declared icons beside the default one: the default icon declared with
\* its size, and two icons of different sizes of which either may be missing
DeclaredFavicons ==
    { [links |-> << IconLink("icon", <<"/", "favicon.ico">>, Dims(64, 64), net) >>,
       favNet |-> net] : net \in {Nets.ok, Nets.headRefused} }
    \cup { [links |-> << IconLink("icon", <<"/", "img", "/", "favicon.ico">>, Dims(32, 32), small),
                         IconLink("apple-touch-icon", <<"/", "img", "/", "touch.png">>,
                                  Dims(64, 64), large) >>,
            favNet |-> Nets.down] : small \in {Nets.ok, Nets.down}, large \in {Nets.down, Nets.html} }

\* the header of a navigation bar: a menu button and a share button
TwoExcluded ==
    << Img(<<"menu-burger-icon.png">>, <<>>, <<>>, <<IntAttr(64), IntAttr(64)>>, Nets.ok, Wraps.none),
       Img(<<"facebook-share.png">>, <<>>, <<>>, <<NoAttr, NoAttr>>, Nets.ok, Wraps.none) >>

\* three buttons in front of the picture of the site
ThreeExcluded ==
    << TwoExcluded[1], TwoExcluded[2], TwoExcluded[1],
       Img(<<"/", "img", "/", "pic.jpg">>, <<>>, <<>>, <<IntAttr(200), IntAttr(100)>>,
           Nets.ok, Wraps.none) >>

\* a wide word mark, 600 by 64, that no request reaches
WideMark ==
    << Img(<<"logo.png">>, <<>>, <<>>, <<IntAttr(600), IntAttr(64)>>, Nets.down, Wraps.none) >>

\* an unreachable picture with a telling alt text, recorded with confidence
\* 0.4, 0.2 and 0.15, in front of an image recorded with 0.1 only
FourthWouldPass ==
    << Img(<<"https://", "cdn.net", "/", "hero.gif">>, <<"Company Logo">>, <<>>,
           <<NoAttr, NoAttr>>, Nets.down, Wraps.none),
       Img(<<"/", "images", "/", "brand.png">>, <<>>, <<>>, <<NoAttr, NoAttr>>, Nets.ok, Wraps.none) >>

\* an unreachable image whose scores add up to 0.4 + 0.2 + 0
ScoresAddToThreshold ==
    << Img(<<"https://", "cdn.net", "/", "touch.png">>, <<"Company Logo">>, <<>>,
           <<NoAttr, NoAttr>>, Nets.down, Wraps.none) >>

\* four unreachable images that six strategies each take for the logo
ManyCandidates ==
    [k \in 1..4 |-> Img(<<"logo.png">>, <<"Company Logo">>, <<"logo">>, <<NoAttr, NoAttr>>,
                        Nets.down, Wraps.home)]

Pages ==
    { Page(<< <<el>> >>, body, fav) :
        el \in ImgElements \cup SvgElements, body \in BodyImages, fav \in Favicons }
    \cup { Page(headers, <<>>, fav) :
             headers \in { <<>>, << TwoCandidates >>, << TwoExcluded >>, << ThreeExcluded >>,
                          << WideMark >>, << FourthWouldPass >>, << ScoresAddToThreshold >>,
                          << ManyCandidates >> },
             fav \in Favicons \cup DeclaredFavicons }

NoDoc == Page(<<>>, <<>>, [links |-> <<>>, favNet |-> Nets.down])

\* soup.find_all('img', src=True)
AllImages(d) == SelectSrcImgs(Flatten(d.header_elements) \o d.body)

\* the outcomes of the browser session
RenderedPage(outcome, headers, body, links) ==
    [outcome |-> outcome, headers |-> headers, body |-> body, links |-> links]

NoRendered == RenderedPage("none", <<>>, <<>>, <<>>)

RenderedPages ==
    { RenderedPage("launch failed", <<>>, <<>>, <<>>),
      RenderedPage("navigation failed", <<>>, <<>>, <<>>),
      \* the page loads and a later query of it raises
      RenderedPage("crashed", <<>>, <<>>, <<>>),
      RenderedPage("loaded", <<>>, <<>>, <<>>) }
    \cup { RenderedPage("loaded", << [sels |-> sels, els |-> <<el>>] >>, <<>>, <<>>) :
             sels \in { {1}, {2, 5} },
             el \in { Img(<<"logo.png">>, <<>>, <<>>, <<NoAttr, NoAttr>>, net, Wraps.none) :
                        net \in {Nets.ok, Nets.down} }
                    \cup { Img(<<"/", "img", "/", "pic.jpg">>, <<>>, <<>>, <<NoAttr, NoAttr>>,
                               Nets.ok, Wraps.home),
                           Svg(<<"logo">>, <<>>, <<>>, PathMarkup(MaxPad), Wraps.none),
                           Svg(<<>>, <<>>, <<>>, PathMarkup(MaxPad), Wraps.home) } }
    \cup { RenderedPage("loaded", <<>>,
                        << Img(<<"LOGO.PNG">>, <<>>, <<>>, <<NoAttr, NoAttr>>, Nets.ok, Wraps.none) >>,
                        <<>>),
           \* a script added <link rel="icon" href="/img/favicon.ico">
           RenderedPage("loaded", <<>>, <<>>,
                        << IconLink("icon", <<"/", "img", "/", "favicon.ico">>, NoSizes, Nets.ok) >>),
           \* <header><svg class="logo">..</svg></header> and
           \* <nav><img src="logo.png"></nav>
           RenderedPage("loaded",
                        << [sels |-> {1}, els |-> << Svg(<<"logo">>, <<>>, <<>>,
                                                         PathMarkup(MaxPad), Wraps.none) >>],
                           [sels |-> {4}, els |-> << Img(<<"logo.png">>, <<>>, <<>>,
                                                         <<NoAttr, NoAttr>>, Nets.ok, Wraps.none) >>] >>,
                        <<>>, <<>>) }

WebsiteArgs == { <<"example.org", "/", "about">>, <<"https://", "example.org", "/", "about">> }

NotScored == [is |-> FALSE, score |-> 0]

\* no earlier call is remembered
NoEarlier ==
    [is |-> FALSE, website_url |-> <<>>, fetchFailed |-> FALSE, doc |-> NoDoc,
     rendered |-> NoRendered, result |-> Nothing]

\* the locals of a second call that has not begun
PeerIdle ==
    [pc |-> "idle", stage |-> 0, website_url |-> <<>>, doc |-> NoDoc, result |-> Nothing,
     returnedBy |-> 0]

\* the object after __init__, before any call
PipeIdle ==
    /\ scraper \in {"AfricanOpportunitiesScraper", "DisruptAfricaScraper"}
    /\ pc = "idle"
    /\ stage = 0
    /\ website_url = <<>>
    /\ doc = NoDoc
    /\ rendered = NoRendered
    /\ logo_candidates = <<>>
    /\ result = Nothing
    /\ stagesRun = <<>>
    /\ stageOut = <<>>
    /\ confirmed = {}
    /\ scored = NotScored
    /\ browserStarts = 0 /\ browser = "none"
    /\ fetchFailed = FALSE
    /\ escaped = FALSE
    /\ earlier = NoEarlier
    /\ peer = PeerIdle
    /\ gateCall = [todo |-> {}, logo_url |-> <<>>, img_element |-> Wraps.none, boost |-> 0,
                   net |-> Nets.down, valid |-> FALSE, fast |-> FALSE, full |-> FALSE,
                   lx |-> Nothing]

(***************************************************************************)
(* extract_logo_from_website                                               *)
(***************************************************************************)
NormIdle ==
    /\ normSrc = <<>>
    /\ normBase = <<>>
    /\ normOut = Nothing
    /\ normPc = "idle"

Init == PipeIdle /\ NormIdle

HasPil == scraper = "AfricanOpportunitiesScraper"

\* the length of static_strategies
StaticCount == 10

\* the elements strategy i (1-7, 9) examines, in the order of its loops
StaticWork(i, soup) ==
    CASE i = 1 -> S1Work(soup.header_elements)
      [] i = 2 -> S2Work(soup.header_elements)
      [] i = 3 -> S3Work(soup.header_elements)
      [] i = 4 -> S4Work(soup.header_elements)
      [] i = 5 -> S5Work(soup.header_elements)
      [] i = 6 -> S6Work(soup.header_elements)
      [] i = 7 -> S7Work(soup.header_elements)
      [] i = 9 -> S9Work(AllImages(soup))

\* static_strategies[i - 1] applied to its arguments
StaticStrategy(i, soup, base_url, cands, known, has_pil) ==
    IF i = 8 THEN FaviconStrategy(soup, base_url, cands, known)
    ELSE IF i = 10 THEN AiAnalysisStrategy(cands, known, has_pil)
    ELSE RunWork(StaticWork(i, soup), base_url, cands, known)

\* a plausible slip: the loop does not return on the first logo
LoopStepKeepsGoing(i, logo_url) ==
    IF i < StaticCount THEN [pc |-> "static", stage |-> i + 1]
    ELSE [pc |-> "dynamic", stage |-> 0]

\* a plausible slip: the event loop of the dynamic strategy is started with
\* run_forever() instead of run_until_complete()
LoopStepRunsForever(i, logo_url) ==
    IF logo_url /= <<>> THEN [pc |-> "done", stage |-> 0]
    ELSE IF i < StaticCount THEN [pc |-> "static", stage |-> i + 1]
    ELSE [pc |-> "run forever", stage |-> 0]

\* the body of the loop over static_strategies after the call
LoopStep(i, logo_url) ==
    IF logo_url /= <<>> THEN [pc |-> "done", stage |-> 0]
    ELSE IF i < StaticCount THEN [pc |-> "static", stage |-> i + 1]
    ELSE [pc |-> "dynamic", stage |-> 0]

\* a plausible slip: the handler logs and raises again
OuterExceptReraises == [result |-> Nothing, escaped |-> TRUE]

\* except Exception around the whole body: log, return None
OuterExcept == [result |-> Nothing, escaped |-> FALSE]

\* a plausible slip: the list of the call before is kept
ResetCandidatesSkipped(cands) == cands

\* self.logo_candidates = []
ResetCandidates(cands) == <<>>

\* the call up to the request: scheme prefix, reset of the candidates
Start(arg) ==
    /\ pc \in {"idle", "done"}
    /\ website_url' = IF StartsWith(arg, "http://") \/ StartsWith(arg, "https://")
                      THEN arg ELSE <<"https://">> \o arg
    /\ logo_candidates' = ResetCandidates(logo_candidates)
    /\ pc' = "fetch"
    /\ stage' = 0
    /\ doc' = NoDoc
    /\ rendered' = NoRendered
    /\ result' = Nothing
    /\ stagesRun' = <<>>
    /\ stageOut' = <<>>
    /\ confirmed' = {}
    /\ scored' = NotScored
    /\ browserStarts' = 0 /\ browser' = "none"
    /\ fetchFailed' = FALSE
    /\ escaped' = FALSE
    /\ UNCHANGED <<scraper, normVars, earlier, peer, gateCall>>

\* session.get or raise_for_status raises
FetchFails ==
    /\ pc = "fetch"
    /\ fetchFailed' = TRUE
    /\ result' = OuterExcept.result
    /\ escaped' = OuterExcept.escaped
    /\ pc' = "done"
    /\ UNCHANGED <<scraper, stage, website_url, doc, rendered, logo_candidates,
                   stagesRun, stageOut, confirmed, scored, browserStarts, browser, normVars, earlier, peer, gateCall>>

\* the response is parsed and the header elements are collected
FetchOk(d) ==
    /\ pc = "fetch"
    /\ doc' = d
    /\ pc' = "static"
    /\ stage' = 1
    /\ UNCHANGED <<scraper, website_url, rendered, logo_candidates, result, stagesRun,
                   stageOut, confirmed, scored, browserStarts, browser, fetchFailed, escaped,
                   normVars, earlier, peer, gateCall>>

\* one round of the loop over static_strategies
Static ==
    /\ pc = "static"
    /\ LET Goto(next) == pc' = next.pc /\ stage' = next.stage
           Returned(out) ==
               /\ stagesRun' = Append(stagesRun, stage)
               /\ stageOut' = Append(stageOut, out.ret)
               /\ logo_candidates' = out.cands
               /\ confirmed' = out.confirmed
               /\ result' = IF out.ret /= <<>> THEN out.ret ELSE result
               /\ scored' = IF out.ret /= <<>>
                            THEN [is |-> out.scored, score |-> out.score] ELSE scored
               /\ Goto(LoopStep(stage, out.ret))
       IN  Returned(StaticStrategy(stage, doc, website_url, logo_candidates, confirmed,
                                   HasPil))
    /\ UNCHANGED <<scraper, website_url, doc, rendered, browserStarts, browser, fetchFailed,
                   escaped, normVars, earlier, peer, gateCall>>

\* a plausible slip: the driver is started without a scope,
\* async_playwright().start(), and nothing stops it when an exception leaves
PlaywrightExitLeavesOpen(session) == session

\* leaving 'async with async_playwright()': the driver is stopped, and a
\* browser it launched that is still open ends with it
PlaywrightExit(session) == IF session = "open" THEN "closed" ELSE session

\* _find_logo_dynamic_strategy up to the end of the navigation; a failure
\* is caught there and None returned
DynLaunch(page) ==
    /\ pc = "dynamic"
    /\ browserStarts' = browserStarts + 1
    /\ stagesRun' = Append(stagesRun, StaticCount + 1)
    /\ rendered' = page
    /\ IF page.outcome \in {"loaded", "crashed"}
       THEN /\ pc' = "dynamic search"
            /\ browser' = "open"
            /\ UNCHANGED <<stageOut, result>>
       ELSE /\ pc' = "done"
            /\ browser' = IF page.outcome = "launch failed" THEN PlaywrightExit("none")
                           ELSE PlaywrightExit("open")
            /\ stageOut' = Append(stageOut, Nothing)
            /\ result' = Nothing
    /\ UNCHANGED <<scraper, stage, website_url, doc, logo_candidates, confirmed, scored,
                   fetchFailed, escaped, normVars, earlier, peer, gateCall>>

\* the search of the rendered page, and the final return
DynSearch ==
    /\ pc = "dynamic search"
    /\ LET Returned(out) ==
               /\ stageOut' = Append(stageOut, out.ret)
               /\ result' = out.ret
               /\ confirmed' = out.confirmed
       IN  IF rendered.outcome = "crashed"
           \* a query of the page raises: no close() is reached
           THEN /\ Returned(StrategyResult(Nothing, <<>>, confirmed, FALSE, 0))
                /\ browser' = PlaywrightExit(browser)
           \* every return is preceded by browser.close()
           ELSE /\ Returned(DynamicStrategy(rendered, website_url, confirmed))
                /\ browser' = PlaywrightExit("closed")
    /\ pc' = "done"
    /\ UNCHANGED <<scraper, stage, website_url, doc, rendered, logo_candidates, stagesRun,
                   scored, browserStarts, fetchFailed, escaped, normVars, earlier, peer, gateCall>>

Next ==
    \/ \E arg \in WebsiteArgs : Start(arg)
    \/ FetchFails
    \/ \E d \in Pages : FetchOk(d)
    \/ Static
    \/ \E page \in RenderedPages : DynLaunch(page)
    \/ DynSearch

Spec == Init /\ [][Next]_vars

(***************************************************************************)
(* Calls repeated on one object                                            *)
(***************************************************************************)
RepeatPages ==
    { Page(headers, <<>>, fav) :
        headers \in { <<>>, << TwoCandidates >> },
        fav \in { [links |-> <<>>, favNet |-> Nets.down], [links |-> <<>>, favNet |-> Nets.ok] } }

RepeatRendered ==
    { RenderedPage("launch failed", <<>>, <<>>, <<>>),
      RenderedPage("loaded", <<>>, <<>>, <<>>),
      RenderedPage("loaded", <<>>,
                   << Img(<<"LOGO.PNG">>, <<>>, <<>>, <<NoAttr, NoAttr>>, Nets.ok, Wraps.none) >>,
                   <<>>) }

\* the call that has returned is remembered: what it was given, what the
\* requests answered, and what it returned
Remember ==
    /\ pc = "done"
    /\ earlier' = [is |-> TRUE, website_url |-> website_url, fetchFailed |-> fetchFailed,
                   doc |-> doc, rendered |-> rendered, result |-> result]
    /\ UNCHANGED <<scraper, pc, stage, website_url, doc, rendered, logo_candidates, result,
                   stagesRun, stageOut, confirmed, scored, browserStarts, browser, fetchFailed,
                   escaped, normVars, peer, gateCall>>

RepeatNext ==
    \/ \E arg \in WebsiteArgs : Start(arg)
    \/ FetchFails
    \/ \E d \in RepeatPages : FetchOk(d)
    \/ Static
    \/ \E page \in RepeatRendered : DynLaunch(page)
    \/ DynSearch
    \/ Remember

SpecRepeat == Init /\ [][RepeatNext]_vars

\* a step of the call under way: from the page request, a static strategy,
\* the launch of the browser or the search of the rendered page to the
\* position behind it
CallStep ==
    /\ pc \in {"fetch", "static", "dynamic", "dynamic search"}
    /\ pc' \in {"static", "dynamic", "dynamic search", "done"}
    /\ stage' \in 0..StaticCount
    /\ <<pc', stage'>> /= <<pc, stage>>

\* the call is one sequential piece of code: as long as the request or the
\* browser operation it waits for returns or fails, its next step is taken
SpecFair == SpecRepeat /\ WF_<<pc, stage>>(CallStep)

(***************************************************************************)
(* Two calls on one object at the same time.  Each call has its own locals *)
(* (website_url, soup, the loop index); self.logo_candidates is the        *)
(* object's.  A call is interleaved with the other between two strategies. *)
(***************************************************************************)
\* pages whose images all lie on the host of the page
PairPages ==
    { Page(<<>>, <<>>, [links |-> <<>>, favNet |-> Nets.down]),
      Page(<< TwoCandidates >>, <<>>, [links |-> <<>>, favNet |-> Nets.down]),
      Page(<< TwoCandidates >>, <<>>, [links |-> <<>>, favNet |-> Nets.ok]) }

PeerArgs == { <<"https://", "other.org">> }

PeerUnchanged ==
    UNCHANGED <<scraper, pc, stage, website_url, doc, rendered, result, stagesRun, stageOut,
                confirmed, scored, browserStarts, browser, fetchFailed, escaped, normVars, earlier,
                gateCall>>

\* the second call up to the request
PeerStart(arg) ==
    /\ peer.pc = "idle"
    /\ peer' = [peer EXCEPT !.pc = "fetch",
                            !.website_url = IF StartsWith(arg, "http://")
                                               \/ StartsWith(arg, "https://")
                                            THEN arg ELSE <<"https://">> \o arg]
    /\ logo_candidates' = ResetCandidates(logo_candidates)
    /\ PeerUnchanged

\* its page request: an exception ends the call with None
PeerFetch(answer) ==
    /\ peer.pc = "fetch"
    /\ peer' = IF answer.ok
               THEN [peer EXCEPT !.pc = "static", !.stage = 1, !.doc = answer.doc]
               ELSE [peer EXCEPT !.pc = "done", !.result = OuterExcept.result]
    /\ UNCHANGED logo_candidates
    /\ PeerUnchanged

\* one round of its loop over static_strategies
PeerStatic ==
    /\ peer.pc = "static"
    /\ LET Returned(out, next) ==
               /\ logo_candidates' = out.cands
               /\ peer' = [peer EXCEPT !.pc = next.pc, !.stage = next.stage,
                                       !.result = out.ret,
                                       !.returnedBy = IF out.ret /= <<>> THEN peer.stage
                                                      ELSE 0]
           Run(out) == Returned(out, LoopStep(peer.stage, out.ret))
       IN  Run(StaticStrategy(peer.stage, peer.doc, peer.website_url, logo_candidates, {},
                              HasPil))
    /\ PeerUnchanged

\* its browser strategy and the final return
PeerDynamic(page) ==
    /\ peer.pc = "dynamic"
    /\ peer' = [peer EXCEPT !.pc = "done",
                            !.result = IF page.outcome = "loaded"
                                       THEN DynamicStrategy(page, peer.website_url, {}).ret
                                       ELSE Nothing,
                            !.returnedBy = StaticCount + 1]
    /\ UNCHANGED logo_candidates
    /\ PeerUnchanged

PairNext ==
    \/ \E arg \in WebsiteArgs : Start(arg)
    \/ FetchFails
    \/ \E d \in PairPages : FetchOk(d)
    \/ Static
    \/ \E page \in RepeatRendered : DynLaunch(page)
    \/ DynSearch
    \/ \E arg \in PeerArgs : PeerStart(arg)
    \/ \E answer \in {[ok |-> FALSE, doc |-> NoDoc]}
                      \cup {[ok |-> TRUE, doc |-> d] : d \in PairPages} : PeerFetch(answer)
    \/ PeerStatic
    \/ \E page \in RepeatRendered : PeerDynamic(page)

SpecPair == Init /\ [][PairNext]_vars

(***************************************************************************)
(* The gate and the two validations, called on their own                   *)
(***************************************************************************)
\* the object after __init__, and the arguments of one call of each:
\* no URL, embedded data, URLs with and without extension, an .ico URL, a
\* URL shorter than 10 characters; the boosts of strategies 7, 9 and 1
GateInit ==
    /\ scraper \in {"AfricanOpportunitiesScraper", "DisruptAfricaScraper"}
    /\ pc = "idle" /\ stage = 0 /\ website_url = <<>> /\ doc = NoDoc
    /\ rendered = NoRendered /\ logo_candidates = <<>> /\ result = Nothing
    /\ stagesRun = <<>> /\ stageOut = <<>> /\ confirmed = {} /\ scored = NotScored
    /\ browserStarts = 0 /\ browser = "none" /\ fetchFailed = FALSE /\ escaped = FALSE
    /\ earlier = NoEarlier /\ peer = PeerIdle
    /\ NormIdle
    /\ \E logo_url \in { <<>>, <<"logo.png">>,
                          <<"data:image/png;base64,", "iVBORw0KGgo=">>,
                          <<"data:text/html;name=logo.png,", "iVBORw0KGgo=">>,
                          <<"https://", "example.org", "/", "logo.png">>,
                          <<"https://", "example.org", "/", "brand.svg">>,
                          <<"https://", "example.org", "/", "favicon.ico">>,
                          <<"https://", "example.org", "/", "assets", "/", "logo">> },
          words \in { <<"", "">>, <<"Company Logo", "">>, <<"", "logo">> },
          dims \in { <<NoAttr, NoAttr>>, <<IntAttr(64), IntAttr(64)>>,
                     <<IntAttr(16), TextAttr>>, <<IntAttr(600), IntAttr(64)>> },
          boost \in {0, 5, 40},
          net \in {Nets.ok, Nets.down, Nets.headRefused, Nets.headRaises, Nets.html,
                   Nets.ico, Nets.icoHead} :
          \* no request for embedded data is ever answered
          /\ StartsWith(logo_url, "data:") => net = Nets.down
          /\ gateCall = [todo |-> {"gate", "fast", "full", "lx"}, logo_url |-> logo_url,
                         img_element |-> Img(<<"logo.png">>,
                                             IF words[1] = "" THEN <<>> ELSE <<words[1]>>,
                                             IF words[2] = "" THEN <<>> ELSE <<words[2]>>,
                                             dims, net, Wraps.none),
                         boost |-> boost, net |-> net,
                         valid |-> FALSE, fast |-> FALSE, full |-> FALSE, lx |-> Nothing]

\* _is_valid_logo_candidate(logo_url, img_element, confidence_boost)
GateCall ==
    /\ "gate" \in gateCall.todo
    /\ gateCall' = [gateCall EXCEPT
                       !.todo = @ \ {"gate"},
                       !.valid = IsValidLogoCandidate(gateCall.logo_url, gateCall.img_element,
                                                      gateCall.boost, gateCall.net)]
    /\ UNCHANGED <<normVars, scraper, pc, stage, website_url, doc, rendered, logo_candidates,
                   result, stagesRun, stageOut, confirmed, scored, browserStarts, browser,
                   fetchFailed, escaped, earlier, peer>>

\* validate_logo_image_fast(logo_url)
ValidateFastCall ==
    /\ "fast" \in gateCall.todo
    /\ gateCall' = [gateCall EXCEPT
                       !.todo = @ \ {"fast"},
                       !.fast = ValidateLogoImageFast(gateCall.logo_url, gateCall.net)]
    /\ UNCHANGED <<normVars, scraper, pc, stage, website_url, doc, rendered, logo_candidates,
                   result, stagesRun, stageOut, confirmed, scored, browserStarts, browser,
                   fetchFailed, escaped, earlier, peer>>

\* validate_logo_image(logo_url)
ValidateCall ==
    /\ "full" \in gateCall.todo
    /\ gateCall' = [gateCall EXCEPT
                       !.todo = @ \ {"full"},
                       !.full = ValidateLogoImage(gateCall.logo_url, gateCall.net)]
    /\ UNCHANGED <<normVars, scraper, pc, stage, website_url, doc, rendered, logo_candidates,
                   result, stagesRun, stageOut, confirmed, scored, browserStarts, browser,
                   fetchFailed, escaped, earlier, peer>>

\* LogoExtractor._is_valid_logo_candidate (the variant with 7 strategies)
LxIsValidLogoCandidate(logo_url, net) ==
    IF logo_url = <<>> THEN FALSE
    ELSE IF StartsWith(logo_url, "data:image/") THEN TRUE
    ELSE IF ~ContainsAny(logo_url, ValidExtensions \ {".ico"}) THEN FALSE
    ELSE IF net.head.status = 200 THEN Contains(<<net.head.ctype>>, "image")
    \* the HEAD raised or answered another status
    ELSE TRUE

RECURSIVE LxFindLogoByAlt(_, _)
\* LogoExtractor._find_logo_by_alt_attribute on the images of one header
LxFindLogoByAlt(images, base_url) ==
    LET Try(img, logo_url) ==
            IF /\ ContainsAny(img.alt, LogoKeywords)
               /\ img.src /= <<>>
               /\ LxIsValidLogoCandidate(logo_url, img.net)
            THEN logo_url
            ELSE LxFindLogoByAlt(Tail(images), base_url)
    IN  IF images = <<>> THEN Nothing
        ELSE Try(images[1], NormalizeLogoUrl(images[1].src, base_url))

\* the header LogoExtractor is given: the image of the call, then
\* <img alt="Company Logo" src="/img/pic.jpg">, a reachable image
LxHeader ==
    << [gateCall.img_element EXCEPT !.src = gateCall.logo_url],
       Img(<<"/", "img", "/", "pic.jpg">>, <<"Company Logo">>, <<>>, <<NoAttr, NoAttr>>,
           Nets.ok, Wraps.none) >>

\* LogoExtractor._find_logo_by_alt_attribute(header_elements, base_url)
LxAltCall ==
    /\ "lx" \in gateCall.todo
    /\ gateCall' = [gateCall EXCEPT
                       !.todo = @ \ {"lx"},
                       !.lx = LxFindLogoByAlt(LxHeader, <<"https://", "example.org", "/", "about">>)]
    /\ UNCHANGED <<normVars, scraper, pc, stage, website_url, doc, rendered, logo_candidates,
                   result, stagesRun, stageOut, confirmed, scored, browserStarts, browser,
                   fetchFailed, escaped, earlier, peer>>

GateNext == GateCall \/ ValidateFastCall \/ ValidateCall \/ LxAltCall

SpecGate == GateInit /\ [][GateNext]_vars

(***************************************************************************)
(* Inputs of the normalisation check                                       *)
(***************************************************************************)
MaxSegs == 2

NormSegs == {"img", "logo.png", "..", "."}

SegSeqs == UNION {[1..k -> NormSegs] : k \in 1..MaxSegs}

\* every kind of src an element may carry: path-relative, root-relative,
\* scheme-relative, absolute, and an embedded image of another type
NormSrcs ==
    {JoinSegs(q) : q \in SegSeqs}
    \cup {<<"/">> \o JoinSegs(q) : q \in SegSeqs}
    \cup {<<"/", "/", "cdn.net", "/">> \o JoinSegs(q) : q \in SegSeqs}
    \cup {<<"https://", "cdn.net", "/">> \o JoinSegs(q) : q \in SegSeqs}
    \cup {<<"http://", "cdn.net", "/">> \o JoinSegs(q) : q \in SegSeqs}
    \cup {<<"data:image/png;base64,", "iVBORw0KGgo=">>}

\* website_url after line 938-939: always with a scheme
NormBases ==
    { <<"https://", "example.org">>,
      <<"https://", "example.org", "/", "about">>,
      <<"http://", "example.org", "/", "about", "/">>,
      <<"https://", "example.org", "/", "about", "/", "img">> }

NormInit ==
    /\ PipeIdle
    /\ normSrc \in NormSrcs
    /\ normBase \in NormBases
    /\ normOut = Nothing
    /\ normPc = "call"

NormCall ==
    /\ normPc = "call"
    /\ normOut' = NormalizeLogoUrl(normSrc, normBase)
    /\ normPc' = "done"
    /\ UNCHANGED <<normSrc, normBase>>
    /\ UNCHANGED pipeVars

NormNext == NormCall

SpecNorm == NormInit /\ [][NormNext]_vars

(***************************************************************************)
(* RFC 3986 section 5.2 reference resolution, written over tokens, as the  *)
(* yardstick for "standard relative-URL joining"                           *)
(***************************************************************************)
RECURSIVE LastSlash(_)
LastSlash(p) == IF p = <<>> THEN 0 ELSE IF p[Len(p)] = "/" THEN Len(p)
                ELSE LastSlash(SubSeq(p, 1, Len(p) - 1))

\* 5.2.3 merge: the base path up to its last slash, then the reference
RfcMerge(bpath, ref) ==
    IF bpath = <<>> THEN <<"/">> \o ref ELSE SubSeq(bpath, 1, LastSlash(bpath)) \o ref

RECURSIVE RfcRemoveDots(_, _)
\* 5.2.4 remove_dot_segments over (slash, segment) pairs
RfcRemoveDots(in, out) ==
    IF in = <<>> THEN out
    ELSE IF Len(in) = 1 THEN out \o <<"/">>
    ELSE IF in[2] = "." THEN
        IF Len(in) = 2 THEN out \o <<"/">> ELSE RfcRemoveDots(Drop(in, 2), out)
    ELSE IF in[2] = ".." THEN
        LET popped == IF out = <<>> THEN out ELSE SubSeq(out, 1, Len(out) - 2)
        IN  IF Len(in) = 2 THEN popped \o <<"/">> ELSE RfcRemoveDots(Drop(in, 2), popped)
    ELSE RfcRemoveDots(Drop(in, 2), out \o <<"/", in[2]>>)

\* every base of NormBases is a scheme token, a host and a path
BaseOrigin(base) == SubSeq(base, 1, 2)
BasePath(base) == Drop(base, 2)

RfcResolve(base, ref) ==
    BaseOrigin(base) \o RfcRemoveDots(RfcMerge(BasePath(base), ref), <<>>)

IsAbsoluteSrc(src) == src /= <<>> /\ src[1] \in {"http://", "https://"}
IsSchemeRelativeSrc(src) == Len(src) >= 2 /\ src[1] = "/" /\ src[2] = "/"
IsRootRelativeSrc(src) == src /= <<>> /\ src[1] = "/" /\ ~IsSchemeRelativeSrc(src)
IsOtherSchemeSrc(src) == src /= <<>> /\ src[1] = "data:image/png;base64,"
IsPathRelativeSrc(src) ==
    src /= <<>> /\ ~IsAbsoluteSrc(src) /\ src[1] /= "/" /\ ~IsOtherSchemeSrc(src)

\* C8: _normalize_logo_url returns an http(s) src unchanged, maps a
\* root-relative src to scheme and host of base_url followed by the src
\* (the path of base_url is dropped), and resolves every other relative src
\* as RFC 3986 relative-reference resolution against base_url does.
\* (Scheme-relative srcs are the subject of C9 and are left out here.)
C8_Normalization ==
    normPc = "done" =>
        /\ IsAbsoluteSrc(normSrc) => normOut = normSrc
        /\ IsRootRelativeSrc(normSrc) => normOut = BaseOrigin(normBase) \o normSrc
        /\ IsPathRelativeSrc(normSrc) => normOut = RfcResolve(normBase, normSrc)

\* the example of the specification: '/img/logo.png' on 'https://example.org/about'
C8_Witness ==
    /\ normPc = "done"
    /\ normSrc = <<"/", "img", "/", "logo.png">>
    /\ normBase = <<"https://", "example.org", "/", "about">>
    /\ normOut = <<"https://", "example.org", "/", "img", "/", "logo.png">>

\* C9: a scheme-relative src ('//host/...') passes through normalisation
\* unchanged, for every base_url.
C9_SchemeRelativeUnchanged ==
    (normPc = "done" /\ IsSchemeRelativeSrc(normSrc)) => normOut = normSrc

(***************************************************************************)
(* Properties of extract_logo_from_website                                 *)
(***************************************************************************)
Returned == pc = "done"

FirstHit ==
    LET hits == {i \in 1..Len(stageOut) : stageOut[i] /= <<>>}
    IN  IF hits = {} THEN Nothing
        ELSE stageOut[CHOOSE i \in hits : \A j \in hits : i <= j]

\* C1: the strategies run in the order 1, 2, ..., 10, 11; one is invoked only
\* if all earlier ones returned nothing; the value returned is that of the
\* earliest strategy that returned one; the browser is started at most
\* once, and only after strategies 1-10 all returned nothing.
C1_StageOrder ==
    /\ \A i \in 1..Len(stagesRun) : stagesRun[i] = i
    /\ \A i \in 1..Len(stageOut) : i < Len(stagesRun) => stageOut[i] = <<>>
    /\ (Returned /\ ~fetchFailed) =>
           Len(stageOut) = Len(stagesRun) /\ result = FirstHit
    /\ browserStarts <= 1
    /\ browserStarts = 1 =>
           /\ Len(stagesRun) = StaticCount + 1
           /\ \A i \in 1..StaticCount : stageOut[i] = <<>>

\* the browser stage produced the result after ten empty static strategies
C1_Witness ==
    /\ Returned
    /\ browserStarts = 1
    /\ Len(stageOut) = StaticCount + 1
    /\ stageOut[StaticCount + 1] /= <<>>
    /\ result = stageOut[StaticCount + 1]

\* C2: a returned value that the validity gate scored has a gate score of
\* at least 0.1, whichever strategy returned it.
C2_Threshold ==
    (Returned /\ result /= <<>> /\ scored.is) => scored.score >= 10

\* C3: every returned value that is not a data URI was confirmed during
\* this call by a request answered with status 200 and an image content
\* type.
C3_ConfirmedReachable ==
    (Returned /\ result /= <<>> /\ ~StartsWith(result, "data:")) => result \in confirmed

\* C4: every returned value that is not a data URI contains one of the
\* extensions .png .jpg .jpeg .gif .svg .webp .ico.
C4_Extension ==
    (Returned /\ result /= <<>> /\ ~StartsWith(result, "data:")) =>
        ContainsAny(result, ValidExtensions)

\* C5: every returned value other than None is an absolute http:// or
\* https:// URL or starts with data:image/svg+xml;base64,
C5_OutputShape ==
    (Returned /\ result /= <<>>) =>
        \/ result[1] \in {"http://", "https://"}
        \/ <<result[1]>> = DataSvgPrefix

\* C6: whatever the fetch, the validation requests and the browser session
\* do, no exception leaves extract_logo_from_website, and when no strategy
\* found anything the call returns None.
C6_NoExceptionEscapes ==
    /\ ~escaped
    /\ (Returned /\ \A i \in 1..Len(stageOut) : stageOut[i] = <<>>) => result = Nothing

\* an empty document, nothing at /favicon.ico, and a navigation that fails
C6_Witness ==
    /\ Returned
    /\ doc.header_elements = <<>> /\ doc.body = <<>>
    /\ rendered.outcome = "navigation failed"
    /\ Len(stageOut) = StaticCount + 1
    /\ result = Nothing
    /\ ~escaped

\* C7: when the page fetch fails the call goes on to the browser strategy.
C7_FetchFailureFallsBack ==
    (Returned /\ fetchFailed) => browserStarts = 1

\* the first svg strategy 2 examines, if it examines one
FirstSvg == S2Work(doc.header_elements)[1].el

LogoSvgWithPath(min_len) ==
    /\ Returned /\ ~fetchFailed
    /\ stageOut[1] = <<>>
    /\ S2Work(doc.header_elements) /= <<>>
    /\ Contains(FirstSvg.class, "logo")
    /\ Len(FirstSvg.markup) >= min_len
    /\ HasBytes(FirstSvg.markup, PathElementBytes)

RoundTrips ==
    /\ result /= <<>> /\ <<result[1]>> = DataSvgPrefix
    /\ Base64Decode(Tail(result)) = FirstSvg.markup
    /\ HasBytes(Base64Decode(Tail(result)), PathDataBytes)

\* C10 as stated: for an inline svg of class logo in a header region with at
\* least 100 characters of markup containing a path (strategy 1 having
\* returned nothing) the call returns data:image/svg+xml;base64, followed
\* by a payload that decodes to markup with the original path data.
C10_RoundTripAtLeast100 ==
    LogoSvgWithPath(100) => RoundTrips

\* C10 amended: the same for markup of more than 100 characters, when the
\* svg has no use child with an href starting with http or a slash and is
\* the first svg strategy 2 examines.
C10_RoundTrip ==
    (/\ LogoSvgWithPath(101)
     /\ ~StartsWith(FirstSvg.use, "http") /\ ~StartsWith(FirstSvg.use, "/")) => RoundTrips

C10_Witness ==
    /\ LogoSvgWithPath(101)
    /\ Len(FirstSvg.markup) = 101
    /\ FirstSvg.use = <<"#mark">>
    /\ RoundTrips

(***************************************************************************)
(* The favicon fallback                                                    *)
(***************************************************************************)
\* the document of the scenario: no header region, no image, and one
\* <link rel="icon" href="/favicon.ico" sizes="64x64">
OnlyDeclaredFavicon ==
    /\ doc.header_elements = <<>>
    /\ doc.body = <<>>
    /\ Len(doc.links) = 1
    /\ doc.links[1].rel = "icon"
    /\ doc.links[1].href = <<"/", "favicon.ico">>
    /\ doc.links[1].sizes = Dims(64, 64)

FaviconTarget == BaseOrigin(website_url) \o <<"/", "favicon.ico">>

\* C11: for a document without header regions and images whose only icon
\* link is <link rel="icon" href="/favicon.ico" sizes="64x64">, and whose
\* target passes validate_logo_image, strategies 1-7 return nothing,
\* strategy 8 is reached and the call returns scheme and host of the base
\* URL followed by /favicon.ico.
C11_FallbackOrdering ==
    (/\ Returned /\ ~fetchFailed /\ OnlyDeclaredFavicon
     /\ ValidateLogoImage(FaviconTarget, doc.links[1].net))
    => /\ stagesRun = <<1, 2, 3, 4, 5, 6, 7, 8>>
       /\ \A i \in 1..7 : stageOut[i] = <<>>
       /\ result = FaviconTarget

C11_Witness ==
    /\ Returned /\ ~fetchFailed /\ OnlyDeclaredFavicon
    /\ ValidateLogoImage(FaviconTarget, doc.links[1].net)
    /\ website_url = <<"https://", "example.org", "/", "about">>
    /\ result = <<"https://", "example.org", "/", "favicon.ico">>

(***************************************************************************)
(* The exclusion list of strategy 7                                        *)
(***************************************************************************)
HeaderImages == SelectSrcImgs(Flatten(doc.header_elements))

Excluded(img) == ContainsAny(img.src, S7ExcludePatterns)

\* C12: what strategy 7 returns is never the URL of an image whose src holds
\* a word of its exclusion list, whatever the other attributes and the
\* answers of validation; for a header of such images only it returns
\* nothing and the call goes on with the strategies behind it.
C12_Exclusion ==
    Len(stageOut) >= 7 =>
       /\ stageOut[7] /= <<>> =>
              \E k \in 1..Len(HeaderImages) :
                  /\ ~Excluded(HeaderImages[k])
                  /\ stageOut[7] = NormalizeLogoUrl(HeaderImages[k].src, website_url)
       /\ (\A k \in 1..Len(HeaderImages) : Excluded(HeaderImages[k])) =>
              /\ stageOut[7] = <<>>
              /\ Returned => Len(stagesRun) >= 8

C12_Witness ==
    /\ Returned
    /\ doc.header_elements = << TwoExcluded >>
    /\ stagesRun = <<1, 2, 3, 4, 5, 6, 7, 8, 9, 10, 11>>
    /\ stageOut[7] = <<>>

(***************************************************************************)
(* Calls repeated on one object                                            *)
(***************************************************************************)
\* the call that has returned was given what the remembered call was given:
\* the same URL, the same answer to the page request, the same page in the
\* browser where both looked at it
SameInput ==
    /\ earlier.is
    /\ earlier.website_url = website_url
    /\ earlier.fetchFailed = fetchFailed
    /\ earlier.doc = doc
    /\ earlier.rendered = rendered \/ NoRendered \in {earlier.rendered, rendered}

\* C13: two calls on one object with the same page and the same answers
\* return the same value, whatever was resolved on the object before or in
\* between.
C13_Determinism ==
    (Returned /\ SameInput) => result = earlier.result

\* a call that finds nothing on an empty page, after a call on another page
\* that left candidates behind, itself after a call on the empty page
C13_Witness ==
    /\ Returned /\ SameInput
    /\ doc.header_elements = <<>> /\ doc.favNet = Nets.down
    /\ Len(stagesRun) = StaticCount + 1
    /\ result = Nothing

(***************************************************************************)
(* Two calls at the same time                                              *)
(***************************************************************************)
\* the candidate was recorded by the call for this URL: in PairPages every
\* image lies on the host of its page
RecordedFor(candidate, base) == BaseOrigin(candidate.url) = BaseOrigin(base)

\* strategy 10 of either call is about to read, or has returned, only what
\* that call recorded
OwnCandidatesOnly ==
    /\ (pc = "static" /\ stage = 10) =>
           \A i \in 1..Len(logo_candidates) : RecordedFor(logo_candidates[i], website_url)
    /\ (peer.pc = "static" /\ peer.stage = 10) =>
           \A i \in 1..Len(logo_candidates) :
               RecordedFor(logo_candidates[i], peer.website_url)
    /\ (peer.pc = "done" /\ peer.returnedBy = 10) =>
           BaseOrigin(peer.result) = BaseOrigin(peer.website_url)
    /\ (Returned /\ Len(stageOut) = 10 /\ stageOut[10] /= <<>>) =>
           BaseOrigin(result) = BaseOrigin(website_url)

\* the reset of one call leaves alone what the other call, between two of
\* its strategies, has recorded
ResetSparesOther ==
    LET Kept(base) ==
            \A i \in 1..Len(logo_candidates) :
                RecordedFor(logo_candidates[i], base) =>
                    \E j \in 1..Len(logo_candidates') :
                        logo_candidates'[j] = logo_candidates[i]
    IN  /\ (peer.pc = "idle" /\ peer'.pc = "fetch" /\ pc = "static") => Kept(website_url)
        /\ (pc \in {"idle", "done"} /\ pc' = "fetch" /\ peer.pc = "static") =>
               Kept(peer.website_url)

\* C14: two calls running at the same time for different organisations
\* share no candidate list: under every interleaving strategy 10 of one
\* call never reads or returns a candidate the other recorded, and the
\* reset of one never empties the list of the other.
C14_Isolation == []OwnCandidatesOnly /\ [][ResetSparesOther]_vars

(***************************************************************************)
(* Strategy 10                                                             *)
(***************************************************************************)
\* strategy 10 has run in this call; no later step touches the candidates
AiRan == Len(stageOut) >= 10

\* candidate j is examined before candidate i: sorted() by confidence,
\* descending, keeps the order of insertion among equals
Before(j, i) ==
    \/ logo_candidates[j].confidence > logo_candidates[i].confidence
    \/ logo_candidates[j].confidence = logo_candidates[i].confidence /\ j < i

Examined(i) ==
    Cardinality({j \in 1..Len(logo_candidates) : Before(j, i)}) < 3

\* confidence + URL score + visual score in hundredths, as decimals
DecimalTotal(candidate) ==
    candidate.confidence + AnalyzeLogoUrlFeatures(candidate.url)[1]
    + AnalyzeLogoVisualFeatures(candidate.url, candidate.net, HasPil)[1]

Exceeds(i) == DecimalTotal(logo_candidates[i]) > 60

\* C15: strategy 10 returns nothing for an empty collection; otherwise it
\* goes through the three candidates of highest confidence in descending
\* order and returns the first whose confidence + URL score + visual score
\* is strictly greater than 0.6, and nothing if none of the three is, even
\* when a fourth candidate would be.
C15_ReRanking ==
    AiRan =>
       /\ logo_candidates = <<>> => stageOut[10] = <<>>
       /\ stageOut[10] /= <<>> =>
              \E i \in 1..Len(logo_candidates) :
                  /\ Examined(i) /\ Exceeds(i)
                  /\ stageOut[10] = logo_candidates[i].url
                  /\ \A j \in 1..Len(logo_candidates) : Before(j, i) => ~Exceeds(j)
       /\ stageOut[10] = <<>> =>
              \A i \in 1..Len(logo_candidates) : Examined(i) => ~Exceeds(i)

(***************************************************************************)
(* Strategy 8                                                              *)
(***************************************************************************)
FaviconRan == Len(stageOut) >= 8

\* the icon links of the document that one of the six selectors matches
DeclaredIcons ==
    {k \in 1..Len(doc.links) :
        /\ doc.links[k].href /= <<>>
        /\ \E n \in 1..Len(FaviconSelectors) : doc.links[k].rel = FaviconSelectors[n]}

IconUrl(k) == NormalizeLogoUrl(doc.links[k].href, website_url)

IconPasses(k) == ValidateLogoImage(IconUrl(k), doc.links[k].net)

\* 0.3 for sizes of at least 64x64, 0.2 for at least 32x32, otherwise 0.1
DeclaredSizeScore(k) ==
    LET sizes == doc.links[k].sizes
    IN  IF sizes.kind = "dims" /\ sizes.w >= 64 /\ sizes.h >= 64 THEN 30
        ELSE IF sizes.kind = "dims" /\ sizes.w >= 32 /\ sizes.h >= 32 THEN 20
        ELSE 10

\* C16: strategy 8 returns /favicon.ico of the base host if that validates;
\* otherwise a declared icon that validates and whose size score no other
\* validating declared icon exceeds; and nothing if none validates.
C16_FaviconOrder ==
    FaviconRan =>
        IF ValidateLogoImage(FaviconTarget, doc.favNet)
        THEN stageOut[8] = FaviconTarget
        ELSE IF \A k \in DeclaredIcons : ~IconPasses(k)
        THEN stageOut[8] = <<>>
        ELSE \E k \in DeclaredIcons :
                /\ IconPasses(k)
                /\ stageOut[8] = IconUrl(k)
                /\ \A n \in DeclaredIcons :
                       IconPasses(n) => DeclaredSizeScore(n) <= DeclaredSizeScore(k)

\* the larger icon, declared second, is returned
C16_Witness ==
    /\ FaviconRan
    /\ ~ValidateLogoImage(FaviconTarget, doc.favNet)
    /\ DeclaredIcons = {1, 2} /\ IconPasses(1) /\ IconPasses(2)
    /\ DeclaredSizeScore(1) < DeclaredSizeScore(2)
    /\ stageOut[8] = IconUrl(2)

(***************************************************************************)
(* The candidate collection                                                *)
(***************************************************************************)
IsPrefix(s, t) == Len(s) <= Len(t) /\ SubSeq(t, 1, Len(s)) = s

CandidatesBounded ==
    /\ Len(logo_candidates) <= 20
    /\ \A i \in 1..Len(logo_candidates) : logo_candidates[i].url /= <<>>

\* a strategy step of the call only appends, and nothing to a list of 20
AppendOnly ==
    (pc = "static" /\ pc' \in {"static", "dynamic", "done"}) =>
        /\ IsPrefix(logo_candidates, logo_candidates')
        /\ Len(logo_candidates) = 20 => logo_candidates' = logo_candidates

\* the images the strategies that record candidates took up in this call
Attempts ==
    LET Taken(i) == IF i \in {8, 10} \/ i > Len(stageOut) THEN 0
                    ELSE Len(StaticWork(i, doc))
    IN  Taken(1) + Taken(2) + Taken(3) + Taken(4) + Taken(5) + Taken(6) + Taken(7) + Taken(9)

C18_Lifecycle ==
    /\ (pc = "static" /\ stage = 1) => logo_candidates = <<>>
    /\ Returned => logo_candidates = <<>>

(***************************************************************************)
(* The gate and its reachability check                                     *)
(***************************************************************************)
\* boost + 0.2 (data URI) + 0.1 (.svg) + 0.3 (keyword) + 0.1 (dimensions)
StatedScore ==
    LET url == gateCall.logo_url
        el  == gateCall.img_element
    IN  gateCall.boost
        + (IF StartsWith(url, "data:image/") THEN 20 ELSE 0)
        + (IF Contains(url, ".svg") THEN 10 ELSE 0)
        + (IF \E w \in {"logo", "brand", "company", "organization", "site"} :
                 Contains(el.alt, w) \/ Contains(el.class, w) THEN 30 ELSE 0)
        + (IF /\ el.width.kind = "int" /\ el.height.kind = "int"
              /\ el.width.val \in 50..500 /\ el.height.val \in 20..200 THEN 10 ELSE 0)

HasAcceptedExtension(url) ==
    \E ext \in {".png", ".jpg", ".jpeg", ".gif", ".svg", ".webp", ".ico"} : Contains(url, ext)

\* C19: the gate returns true exactly when the URL is not empty, is a
\* data:image URI or holds an accepted extension and passed the
\* reachability check, and the score is at least 0.1.
C19_Gate ==
    ("gate" \notin gateCall.todo /\ "fast" \notin gateCall.todo) =>
        (gateCall.valid <=>
            /\ gateCall.logo_url /= <<>>
            /\ \/ StartsWith(gateCall.logo_url, "data:image/")
               \/ HasAcceptedExtension(gateCall.logo_url) /\ gateCall.fast
            /\ StatedScore >= 10)

\* an answer with status 200 and a content type of an image
GoodAnswer(response) ==
    response.status = 200 /\ (Contains(<<response.ctype>>, "image")
                               \/ Contains(<<response.ctype>>, "icon"))

\* the URL gets as far as the requests
Requested(url) ==
    StrLen(url) >= 10 /\ ~StartsWith(url, "data:image/") /\ HasAcceptedExtension(url)

\* the check falls back to GET when HEAD raises or answers another status
\* than 200, and passes on a good answer of the GET; it fails only if no
\* request made has a good answer
ChecksAsStated(passed) ==
    LET head == gateCall.net.head
        get  == gateCall.net.get
    IN  Requested(gateCall.logo_url) =>
           /\ (head.status /= 200 /\ GoodAnswer(get)) => passed
           /\ ~passed => ~GoodAnswer(head) /\ (head.status /= 200 => ~GoodAnswer(get))

\* C20: reachability check: a HEAD that raises or is answered with another
\* status than 200 is followed by a streamed GET, and the URL passes if
\* that GET answers 200 with a content type of an image.
C20_GetFallback ==
    /\ "fast" \notin gateCall.todo => ChecksAsStated(gateCall.fast)
    /\ "full" \notin gateCall.todo => ChecksAsStated(gateCall.full)

(***************************************************************************)
(* The ICO signature                                                       *)
(***************************************************************************)
\* an answer with status 200 whose content type names no image
UntypedAnswer(response) ==
    response.status = 200 /\ ~Contains(<<response.ctype>>, "image")
                          /\ ~Contains(<<response.ctype>>, "icon")

\* an .ico URL whose body starts with the ICO signature and whose answers
\* with status 200 carry no image content type; the HEAD raised or not
IcoBySignature ==
    /\ EndsWith(gateCall.logo_url, ".ico") /\ StrLen(gateCall.logo_url) >= 10
    /\ UntypedAnswer(gateCall.net.get) /\ gateCall.net.get.sig
    /\ gateCall.net.head.status = 0 \/ UntypedAnswer(gateCall.net.head)

\* C21: an .ico URL answered with status 200 and no image content type is
\* accepted on the ICO signature of its first four bytes, by the
\* reachability check of the gate and by the favicon check, whether the
\* HEAD request raised or was answered.
C21_IcoSignature ==
    IcoBySignature =>
        /\ "fast" \notin gateCall.todo => gateCall.fast
        /\ "full" \notin gateCall.todo => gateCall.full

(***************************************************************************)
(* The search of the rendered page                                         *)
(***************************************************************************)
\* the elements of the rendered page in the stated order of search: header
\* images naming a logo, header svgs naming a logo, what header home and
\* brand links wrap, images naming a logo anywhere, declared favicon links
StatedDynOrder(page) ==
    LET heads == Flatten([k \in 1..Len(page.headers) |-> page.headers[k].els])
        Pick(els, kind, Wanted(_)) ==
            Flatten([k \in 1..Len(els) |->
                       IF Wanted(els[k]) THEN << [kind |-> kind, el |-> els[k]] >> ELSE <<>>])
        NamesLogo(el) == Contains(el.alt, "logo") \/ Contains(el.src, "logo")
        LogoImg(el) == el.tag = "img" /\ NamesLogo(el)
        LogoSvg(el) == el.tag = "svg" /\ (Contains(el.class, "logo") \/ Contains(el.id, "logo"))
        HomeLink(a) ==
            /\ a.tag = "a"
            /\ \/ a.hashref /\ a.href \in { <<"/">>, <<".", "/">> }
               \/ Contains(a.class, "logo") \/ Contains(a.class, "brand")
        LinkedImg(el) == el.tag = "img" /\ HomeLink(el.wrap)
        LinkedSvg(el) == el.tag = "svg" /\ HomeLink(el.wrap)
    IN  Pick(heads, "img", LogoImg) \o Pick(heads, "svg", LogoSvg)
        \o Pick(heads, "img", LinkedImg) \o Pick(heads, "svg", LinkedSvg)
        \o Pick(heads \o page.body, "img", LogoImg)
        \o [k \in 1..Len(page.links) |->
              [kind |-> "img", el |-> [src |-> page.links[k].href, net |-> page.links[k].net]]]

\* the rendered page was searched and the call has returned
DynSearched == Returned /\ Len(stageOut) = StaticCount + 1 /\ rendered.outcome = "loaded"

\* C22: the search of the rendered page returns the first hit in the order
\* header logo images, header logo svgs, header home and brand links, logo
\* images anywhere on the page, declared favicon links; nothing otherwise.
C22_DynamicOrder ==
    DynSearched =>
        result = RunDynWork(StatedDynOrder(rendered), website_url, confirmed).ret

LxValidationFails ==
    /\ "lx" \notin gateCall.todo
    /\ gateCall.logo_url /= <<>> /\ ~StartsWith(gateCall.logo_url, "data:image/")
    /\ \E w \in {"logo", "brand", "company", "organization", "site"} :
           Contains(gateCall.img_element.alt, w)
    /\ \/ gateCall.net.head.status /= 200
       \/ ~Contains(<<gateCall.net.head.ctype>>, "image")

\* C24: in LogoExtractor a candidate image whose validation fails is
\* discarded: strategy 1 does not return it and goes on to its next
\* candidate.
C24_LxDiscards ==
    LxValidationFails => gateCall.lx = <<"https://", "example.org", "/", "img", "/", "pic.jpg">>

(***************************************************************************)
(* The limit of strategy 7                                                 *)
(***************************************************************************)
\* per header region the first three images with a src that hold no word of
\* the exclusion list, without those whose declared dimensions are not
\* width >= 30, height >= 20, width/height <= 10 and height/width <= 3
StatedS7Work(header_elements) ==
    LET Keep(img) == IF Excluded(img) THEN <<>> ELSE <<img>>
        NotExcluded(imgs) == Flatten([k \in 1..Len(imgs) |-> Keep(imgs[k])])
        Plausible(img) ==
            (img.width.kind = "int" /\ img.height.kind = "int") =>
                /\ img.width.val >= 30 /\ img.height.val >= 20
                /\ img.width.val <= 10 * img.height.val
                /\ img.height.val <= 3 * img.width.val
        Item(img) == IF Plausible(img) THEN <<ImgWork(img, img.src, 0, 10, 7)>> ELSE <<>>
        Each(imgs) == Flatten([k \in 1..Len(imgs) |-> Item(imgs[k])])
        Region(header) == Each(FirstN(NotExcluded(SelectSrcImgs(header)), 3))
    IN  Flatten([k \in 1..Len(header_elements) |-> Region(header_elements[k])])

\* C25: strategy 7 evaluates, per header region, the first three images
\* that hold no exclusion word (excluded images do not count towards the
\* three) and whose declared dimensions are plausible, and returns the
\* first of them that passes the gate.
C25_S7Limit ==
    Len(stageOut) >= 7 =>
        stageOut[7] = RunWork(StatedS7Work(doc.header_elements), website_url, <<>>, {}).ret

(***************************************************************************)
(* The dimension check of strategy 9                                       *)
(***************************************************************************)
\* what strategy 9 evaluates if it skips an image of declared integer
\* dimensions exactly when strategy 7 skips it: of the first ten images
\* with a src those without exclusion word in src or alt, with boost 0.15
\* for a logo keyword in src or alt and 0.05 otherwise
StatedS9Work(all_images) ==
    LET Words(img) == img.src \o img.alt
        Item(img) ==
            IF ContainsAny(Words(img), S9ExcludePatterns) \/ S7DimsRejected(img) THEN <<>>
            ELSE IF \E w \in {"logo", "brand", "company", "organization", "site"} :
                       Contains(Words(img), w)
            THEN <<ImgWork(img, img.src, 15, 15, 9)>>
            ELSE <<ImgWork(img, img.src, 5, 5, 9)>>
        Each(imgs) == Flatten([k \in 1..Len(imgs) |-> Item(imgs[k])])
    IN  Each(FirstN(all_images, 10))

\* the candidates strategy 9 recorded
S9Recorded ==
    LET ByS9(c) == c.strategy = 9
    IN  SelectSeq(logo_candidates, ByS9)

\* strategy 9 has run and the candidate collection had room for its images
S9Ran == Len(stageOut) >= 9 /\ Len(logo_candidates) < MaxCandidates

\* C26: strategy 9 skips an image of declared integer dimensions exactly
\* when strategy 7 would skip it, and evaluates the others with boost 0.15
\* if src or alt holds a logo keyword and 0.05 otherwise: it returns the
\* first that passes the gate and records the others with that boost.
C26_S9Dimensions ==
    S9Ran =>
        LET stated == RunWork(StatedS9Work(AllImages(doc)), website_url, <<>>, {})
        IN  stageOut[9] = stated.ret /\ S9Recorded = stated.cands

(***************************************************************************)
(* Candidates that do not pass                                             *)
(***************************************************************************)
\* the candidates strategy i recorded
RecordedBy(i) ==
    LET ByStrategy(c) == c.strategy = i
    IN  SelectSeq(logo_candidates, ByStrategy)

\* strategy i returned nothing, so none of the elements it evaluated
\* passed: each of them is in the collection, an img with the boost its
\* strategy gave it
RetainedBy(i) ==
    LET work == StaticWork(i, doc)
        kept == RecordedBy(i)
    IN  /\ Len(kept) = Len(work)
        /\ \A k \in 1..Len(work) :
               (k <= Len(kept) /\ work[k].kind = "img") => kept[k].confidence = work[k].boost

\* C27: an img or svg that a static strategy evaluates and that does not
\* pass is added to the candidate collection, unless that holds 20
\* entries, with the boost of the strategy as its confidence.
C27_Retained ==
    \A i \in {1, 2, 3, 4, 5, 6, 7, 9} :
        (i <= Len(stageOut) /\ stageOut[i] = <<>> /\ Len(logo_candidates) < MaxCandidates)
            => RetainedBy(i)

(***************************************************************************)
(* The two engines side by side                                            *)
(***************************************************************************)
\* what the next strategy returns and records in the engine of the class
\* that has, or has not, the image library
EngineStep(has_pil) ==
    StaticStrategy(stage, doc, website_url, logo_candidates, confirmed, has_pil)

\* C28: the engines of AfricanOpportunitiesScraper and of
\* DisruptAfricaScraper are equivalent: wherever one of them stands, on
\* the same page with the same answers, the strategy it runs next returns
\* the same value and records the same candidates in the other.
C28_Equivalent ==
    pc = "static" =>
        /\ EngineStep(TRUE).ret = EngineStep(FALSE).ret
        /\ EngineStep(TRUE).cands = EngineStep(FALSE).cands

(***************************************************************************)
(* Termination                                                             *)
(***************************************************************************)
\* a call is under way
Running == pc \notin {"idle", "done"}

\* how far the call has got: the page request, the static strategies in
\* their order, the launch of the browser, the search of the rendered page
Rank ==
    CASE pc = "fetch" -> 1
      [] pc = "static" -> 1 + stage
      [] pc = "dynamic" -> StaticCount + 2
      [] pc = "dynamic search" -> StaticCount + 3
      [] pc = "done" -> StaticCount + 4
      [] OTHER -> 0

\* every step of a call takes it further: no stage is entered twice
Advances == Running => Rank' > Rank

\* C29: every call of extract_logo_from_website returns, as long as each
\* request and each browser operation returns or fails: the stages are
\* gone through once, in order, and none is entered again.
C29_Terminates == (Running ~> Returned) /\ [][Advances]_vars

\* a call that went through every stage, searched the rendered page and
\* returned
C29_Witness ==
    /\ Returned
    /\ stagesRun = <<1, 2, 3, 4, 5, 6, 7, 8, 9, 10, 11>>
    /\ Len(stageOut) = StaticCount + 1
    /\ rendered.outcome = "loaded"
    /\ browser = "closed"

(***************************************************************************)
(* What strategy 7 can return                                              *)
(***************************************************************************)
\* the URL of a header image as strategy 7 hands it to the gate
S7Url(img) == NormalizeLogoUrl(img.src, website_url)

\* the image itself earns score in the gate: '.svg' in the URL, a logo
\* keyword in alt or class, or declared dimensions within 50..500 x 20..200
EarnsScore(img) ==
    \/ Contains(S7Url(img), ".svg")
    \/ \E w \in {"logo", "brand", "company", "organization", "site"} :
           Contains(img.alt, w) \/ Contains(img.class, w)
    \/ /\ img.width.kind = "int" /\ img.height.kind = "int"
       /\ img.width.val \in 50..500 /\ img.height.val \in 20..200

\* a reachable image with a valid extension
PlainReachable(img) ==
    /\ ~StartsWith(S7Url(img), "data:")
    /\ HasAcceptedExtension(S7Url(img))
    /\ GoodAnswer(img.net.head)

S7Ran == Len(stageOut) >= 7

\* what strategy 7 returned is an image of the header that earns score by
\* itself or, if embedded counts, is embedded as a data:image URI
S7ReturnedEarning(embedded) ==
    \E k \in 1..Len(HeaderImages) :
        /\ S7Url(HeaderImages[k]) = stageOut[7]
        /\ \/ EarnsScore(HeaderImages[k])
           \/ embedded /\ StartsWith(S7Url(HeaderImages[k]), "data:image/")

\* a reachable image without any signal that strategy 7 evaluated is not
\* returned; it is in the collection with confidence 0.1
PlainOnesRecorded ==
    \A k \in 1..Len(StaticWork(7, doc)) :
        LET img == StaticWork(7, doc)[k].el
        IN  (PlainReachable(img) /\ ~EarnsScore(img)) =>
                /\ stageOut[7] /= S7Url(img)
                /\ stageOut[7] = <<>> =>
                       \E j \in 1..Len(RecordedBy(7)) :
                           /\ RecordedBy(7)[j].url = S7Url(img)
                           /\ RecordedBy(7)[j].confidence = 10

====
